---- MODULE Spec2Model ----
(***************************************************************************)
(* Model of the squat-analyzer backend (src/backend/app.py): the /analyze  *)
(* request handler analyze_video with its frame sampling, per-frame        *)
(* measurement extraction (process_frame), timestamp scaling and the       *)
(* progressive phase scores.                                               *)
(*                                                                         *)
(* Units.  Floats of the program are kept as scaled integers:              *)
(*   angles              tenths of a degree        (70 deg  = 700)         *)
(*   shoulder diffs      tenths                    (2.0     = 20)          *)
(*   scores before round hundredths of a point     (100.0   = 10000)       *)
(*   scores after round  tenths of a point         (100.0   = 1000)        *)
(*   landmark x, y       hundredths of the image   (0.5     = 50)          *)
(*   visibility          hundredths                (0.15    = 15)          *)
(*   durations           milliseconds                                      *)
(*   fps                 hundredths of a frame per second (30 fps = 3000)  *)
(* Python's None is the empty sequence, a value v is <<v>>.                *)
(***************************************************************************)
EXTENDS Integers, Sequences, FiniteSets, TLC

VARIABLES
    pc,                           \* position of the handler / reducer
    \* ---- Phase & Score Tracker (analyze_video, lines 1289-1500)
    results,                      \* the frame records, in list order
    current_best_knee_angle,      \* line 1326
    current_worst_shoulder_diff,  \* line 1327
    last_scores,                  \* line 1323
    global_min_knee_angle,        \* line 1319
    final_scores,                 \* 'scores' of analysis_result, None until built
    \* ---- process_frame (lines 1099-1236)
    detection,                    \* pose landmarks of the frame, None without a pose
    frame_out,                    \* what process_frame returned or raised
    \* ---- the /analyze request (analyze_video, lines 668-1528)
    video,                        \* the uploaded file as the decoders see it
    disk,                         \* scratch files of the request that exist
    temp_path,                    \* the scratch file the handler works on
    original_duration,            \* seconds as milliseconds, None if unknown
    original_frame_count,
    cap_opened,                   \* cap.isOpened()
    fps,                          \* hundredths of a frame per second
    frame_count,
    target_len,                   \* len(target_frames)
    frames_to_process,            \* frame indices, in list order
    response,                     \* None until the handler returns
    fallback_decodes,             \* runs of the sequential fallback (line 1061)
    \* ---- get_video_properties (lines 547-598)
    probe_output,                 \* what the ffprobe run produced
    probe_result,                 \* (duration, nb_frames, fps), None until returned
    \* ---- one frame on its way to the pose oracle (lines 453-474, 812-1071)
    source_dims,                  \* width and height the capture reports
    frame_img,                    \* the frame's image, None while not extracted
    \* ---- one decode loop of the sampler (lines 453-474, 917-927, 945-980)
    decode_loop,                  \* the loop's locals, None outside a loop
    \* ---- the live sessions (lines 132-136, 287-295, 339-357, 635-646)
    previous_states,              \* session id -> "standing" / "squatting"
    squat_counts,                 \* session id -> completed squats
    squat_timings,                \* session id -> start times of the squats
    transitions,                  \* session id -> squatting-to-standing
                                  \* transitions since the last reset
    last_call                     \* the call handled last, None before any

trackVars == <<results, current_best_knee_angle, current_worst_shoulder_diff,
               last_scores, global_min_knee_angle, final_scores>>

frameVars == <<detection, frame_out>>

reqVars == <<video, disk, temp_path, original_duration, original_frame_count,
             cap_opened, fps, frame_count, target_len, frames_to_process, response,
             fallback_decodes>>

probeVars == <<probe_output, probe_result>>

sampleVars == <<source_dims, frame_img>>

sessionVars == <<previous_states, squat_counts, squat_timings, transitions, last_call>>

vars == <<pc, trackVars, frameVars, reqVars, probeVars, sampleVars, decode_loop,
          sessionVars>>

\* What the variables of the sampler's loop and of the sessions hold while
\* another part of the program runs.
Elsewhere == <<decode_loop, sessionVars>>

-----------------------------------------------------------------------------
(* Generic helpers                                                          *)

None == <<>>
Some(v) == <<v>>
IsNone(o) == o = <<>>
Val(o) == o[1]

Abs(x) == IF x < 0 THEN -x ELSE x
MinOf(a, b) == IF a <= b THEN a ELSE b
MaxOf(a, b) == IF a >= b THEN a ELSE b
SetMax(S) == CHOOSE x \in S : \A y \in S : y <= x
SetMin(S) == CHOOSE x \in S : \A y \in S : x <= y

\* Python int(x): truncation towards zero of n / d (d > 0).
TruncDiv(n, d) == IF n >= 0 THEN n \div d ELSE -((-n) \div d)

\* Python round(x) of x = n / d (n >= 0, d > 0): nearest integer, ties to even.
RoundHalfEven(n, d) ==
    LET q == n \div d
        r2 == 2 * (n % d)
    IN  IF r2 < d THEN q
        ELSE IF r2 > d THEN q + 1
        ELSE IF q % 2 = 0 THEN q ELSE q + 1

RECURSIVE Gcd(_, _)
Gcd(a, b) == IF b = 0 THEN a ELSE Gcd(b, a % b)

\* Exact rationals n / d in lowest terms with d > 0, for timestamps (seconds).
Rat(n, d) ==
    LET sn == IF d < 0 THEN -n ELSE n
        sd == Abs(d)
        g == Gcd(Abs(sn), sd)
    IN  [n |-> sn \div g, d |-> sd \div g]
RatMul(a, b) == Rat(a.n * b.n, a.d * b.d)
RatDiv(a, b) == Rat(a.n * b.d, a.d * b.n)
RatLess(a, b) == a.n * b.d < b.n * a.d

Range(f) == {f[x] : x \in DOMAIN f}

\* Python round(x, 1) of x given in hundredths; the result is in tenths.
\* Ties go to the even tenth, as round() does on an exactly representable
\* value.
Round1(h) ==
    LET q == h \div 10
        r == h % 10
    IN  IF r < 5 THEN q
        ELSE IF r > 5 THEN q + 1
        ELSE IF q % 2 = 0 THEN q ELSE q + 1

-----------------------------------------------------------------------------
(* POSE_LANDMARKS indices used by the handler                               *)

LEFT_SHOULDER == 11
RIGHT_SHOULDER == 12
LEFT_HIP == 23
RIGHT_HIP == 24
LEFT_KNEE == 25
RIGHT_KNEE == 26
LEFT_ANKLE == 27
RIGHT_ANKLE == 28

Joints == {LEFT_SHOULDER, RIGHT_SHOULDER, LEFT_HIP, RIGHT_HIP,
           LEFT_KNEE, RIGHT_KNEE, LEFT_ANKLE, RIGHT_ANKLE}

\* One landmark dict {'x','y','visibility'}; 'z' is never read.
Pt(x, y, v) == [x |-> x, y |-> y, visibility |-> v]
\* The placeholder the handler writes for a skipped landmark, and what the
\* gate of joints_visible rejects.
ZeroPt == Pt(0, 0, 0)

-----------------------------------------------------------------------------
(* Phase & Score Tracker                                                    *)

\* Score mapping thresholds (degrees and diff units, in tenths).
DEPTH_FULL == 700
DEPTH_NONE == 900
SHOULDER_FULL == 20
SHOULDER_NONE == 100

\* calc_depth_score(angle, hip_below_knee), in hundredths of a point.
calc_depth_score(angle, hip_below_knee) ==
    IF hip_below_knee \/ angle <= DEPTH_FULL THEN 10000
    ELSE IF angle >= DEPTH_NONE THEN 0
    ELSE (DEPTH_NONE - angle) * 50

\* calc_shoulder_score(diff), in hundredths of a point.
calc_shoulder_score_noclamp(diff) ==
    LET abs_diff == Abs(diff)
    IN  IF abs_diff >= SHOULDER_NONE THEN 0
        ELSE (SHOULDER_NONE - abs_diff) * 125

calc_shoulder_score(diff) ==
    LET abs_diff == Abs(diff)
    IN  IF abs_diff <= SHOULDER_FULL THEN 10000
        ELSE IF abs_diff >= SHOULDER_NONE THEN 0
        ELSE (SHOULDER_NONE - abs_diff) * 125

\* hip_below_knee of one frame: image y grows downwards.
HipBelowKnee(lm) ==
    \/ lm[RIGHT_HIP].y > lm[RIGHT_KNEE].y
    \/ lm[LEFT_HIP].y > lm[LEFT_KNEE].y

\* round(knee_depth * 0.4 + shoulder_align * 0.3, 1), scores in tenths.
Overall_renormalised(knee_depth, shoulder_align) ==
    Round1(((knee_depth * 4 + shoulder_align * 3) * 10) \div 7)

Overall(knee_depth, shoulder_align) == Round1(knee_depth * 4 + shoulder_align * 3)

InitScores == [knee_depth |-> 0, shoulder_align |-> 1000, overall |-> 0, phase |-> 0]

\* Every record process_frame returns carries current_phase = 'down'
\* (the variable is set once and never reassigned), so the segmentation loop
\* opens one phase at the first frame and never closes it before the end.
SquatPhases(res) ==
    IF res = <<>> THEN <<>>
    ELSE <<[start |-> 1, end |-> Len(res), frames |-> 1 .. Len(res)]>>

\* current_best_knee_angle = min(current_best_knee_angle, knee_angle)
BestKneeAngle_last(best, knee_angle) == knee_angle

BestKneeAngle(best, knee_angle) == MinOf(best, knee_angle)

\* current_worst_shoulder_diff = max(current_worst_shoulder_diff, abs(shoulder_diff))
WorstShoulderDiff_last(worst, shoulder_diff) == Abs(shoulder_diff)

WorstShoulderDiff(worst, shoulder_diff) == MaxOf(worst, Abs(shoulder_diff))

\* One iteration of the scoring loop on frame f: the frame's scores and the
\* running values after it.
ScoreStep(f, best, worst, last, gmin) ==
    LET knee_angle == f.measurements.kneeAngle
        shoulder_diff == f.measurements.shoulderMidfootDiff
        hip_below_knee == HipBelowKnee(f.landmarks)
        best2 == IF IsNone(knee_angle) THEN best ELSE BestKneeAngle(best, Val(knee_angle))
        kd == IF IsNone(knee_angle) THEN last.knee_depth
              ELSE Round1(calc_depth_score(best2, hip_below_knee))
        gmin2 == IF IsNone(knee_angle) THEN gmin ELSE MinOf(gmin, Val(knee_angle))
        worst2 == IF IsNone(shoulder_diff) THEN worst
                  ELSE WorstShoulderDiff(worst, Val(shoulder_diff))
        sa == IF IsNone(shoulder_diff) THEN last.shoulder_align
              ELSE Round1(calc_shoulder_score(worst2))
        sc == [knee_depth |-> kd, shoulder_align |-> sa,
               overall |-> Overall(kd, sa), phase |-> 1]
    IN  [scores |-> sc, best |-> best2, worst |-> worst2, gmin |-> gmin2]

\* The depth score recomputed from an angle alone, as the final scores do.
DepthFromAngle(a) ==
    IF a <= DEPTH_FULL THEN 1000
    ELSE IF a >= DEPTH_NONE THEN 0
    ELSE Round1((DEPTH_NONE - a) * 50)

\* The final 'scores' object of the result.
FinalScores(res, gmin) ==
    LET squat_frames == UNION {SquatPhases(res)[p].frames : p \in DOMAIN SquatPhases(res)}
        kd1 == IF squat_frames = {} THEN 0 ELSE DepthFromAngle(gmin)
        sa1 == IF squat_frames = {} THEN 0
               ELSE SetMax({res[i].scores.shoulder_align : i \in squat_frames})
        knee_angles == {Val(res[i].measurements.kneeAngle) :
                          i \in {j \in DOMAIN res : ~IsNone(res[j].measurements.kneeAngle)}}
        kd2 == IF kd1 = 0 /\ knee_angles # {}
               THEN DepthFromAngle(SetMin(knee_angles)) ELSE kd1
        shoulder_diffs == {Abs(Val(res[i].measurements.shoulderMidfootDiff)) :
                          i \in {j \in DOMAIN res : ~IsNone(res[j].measurements.shoulderMidfootDiff)}}
        worst_diff == SetMax(shoulder_diffs)
        sa2 == IF sa1 = 0 /\ shoulder_diffs # {}
               THEN (IF worst_diff >= SHOULDER_NONE THEN 0
                     ELSE Round1((SHOULDER_NONE - worst_diff) * 125))
               ELSE sa1
    IN  [kneeDepthScore |-> kd2, shoulderAlignmentScore |-> sa2,
         overall |-> Overall(kd2, sa2)]

-----------------------------------------------------------------------------
(* Inputs of the tracker: the measurements and landmarks of a frame record  *)

MaxFrames == 3

\* Knee angles: none, below 70, exactly 70, inside the linear band, above 90.
KneeAngles == {None, Some(650), Some(700), Some(800), Some(1200)}
\* Signed shoulder-midfoot diffs: none, aligned, inside the band, beyond 10.
ShoulderDiffs == {None, Some(10), Some(-50), Some(120)}

\* Hip and knee heights of both sides: hips above the knees, and the right
\* hip below the right knee.
LmOfHips(rh, rk, lh, lk) ==
    [j \in Joints |->
        CASE j = RIGHT_HIP -> Pt(40, rh, 90)
          [] j = RIGHT_KNEE -> Pt(50, rk, 90)
          [] j = LEFT_HIP -> Pt(40, lh, 90)
          [] j = LEFT_KNEE -> Pt(50, lk, 90)
          [] OTHER -> Pt(50, 80, 90)]

TrackLandmarks == {LmOfHips(40, 60, 40, 60), LmOfHips(70, 60, 40, 60)}

TrackFrames ==
    {[landmarks |-> lm,
      measurements |-> [kneeAngle |-> ka, shoulderMidfootDiff |-> sd]] :
        lm \in TrackLandmarks, ka \in KneeAngles, sd \in ShoulderDiffs}

-----------------------------------------------------------------------------
(* Specification of the tracker: the scoring loop reads the frames once, in *)
(* list order; each frame is drawn when the loop reaches it.                *)

TrackInit ==
    /\ pc = "score"
    /\ results = <<>>
    /\ current_best_knee_angle = 1800
    /\ current_worst_shoulder_diff = 0
    /\ last_scores = InitScores
    /\ global_min_knee_angle = 1800
    /\ final_scores = None
    /\ detection = None
    /\ frame_out = None
    /\ video = None
    /\ disk = {}
    /\ temp_path = None
    /\ original_duration = None
    /\ original_frame_count = None
    /\ cap_opened = FALSE
    /\ fps = 0
    /\ frame_count = 0
    /\ target_len = 0
    /\ frames_to_process = <<>>
    /\ response = None
    /\ fallback_decodes = 0
    /\ probe_output = None
    /\ probe_result = None
    /\ source_dims = None
    /\ frame_img = None
    /\ decode_loop = <<>>
    /\ previous_states = <<>>
    /\ squat_counts = <<>>
    /\ squat_timings = <<>>
    /\ transitions = <<>>
    /\ last_call = <<>>

ScoreFrame ==
    /\ pc = "score"
    /\ Len(results) < MaxFrames
    /\ \E f \in TrackFrames :
         LET s == ScoreStep(f, current_best_knee_angle, current_worst_shoulder_diff,
                            last_scores, global_min_knee_angle)
         IN  /\ results' = Append(results,
                    [landmarks |-> f.landmarks, measurements |-> f.measurements,
                     scores |-> s.scores])
             /\ current_best_knee_angle' = s.best
             /\ current_worst_shoulder_diff' = s.worst
             /\ last_scores' = s.scores
             /\ global_min_knee_angle' = s.gmin
    /\ UNCHANGED <<Elsewhere, sampleVars, probeVars, pc, final_scores, frameVars, reqVars>>

Finalize ==
    /\ pc = "score"
    /\ final_scores' = Some(FinalScores(results, global_min_knee_angle))
    /\ pc' = "done"
    /\ UNCHANGED <<Elsewhere, sampleVars, probeVars, results, current_best_knee_angle, current_worst_shoulder_diff,
                   last_scores, global_min_knee_angle, frameVars, reqVars>>

TrackNext == ScoreFrame \/ Finalize

SpecTrack == TrackInit /\ [][TrackNext]_vars

-----------------------------------------------------------------------------
(* Geometry kernel                                                          *)

\* calculate_angle(a, b, c): the angle at b, in tenths of a degree.  The
\* cosine is dot / (|ba| |bc|); acos is evaluated exactly on the cosines
\* whose square is 0, 1/4, 1/2, 3/4 or 1, which are the ones the landmark
\* grid of the model produces.  A ray shorter than 1e-6 is a ray of length 0
\* on the grid.
calculate_angle(a, b, c) ==
    LET ba_x == a.x - b.x
        ba_y == a.y - b.y
        bc_x == c.x - b.x
        bc_y == c.y - b.y
        dot_product == ba_x * bc_x + ba_y * bc_y
        m_ba == ba_x * ba_x + ba_y * ba_y
        m_bc == bc_x * bc_x + bc_y * bc_y
        d2 == dot_product * dot_product
        mm == m_ba * m_bc
    IN  IF m_ba = 0 \/ m_bc = 0 THEN 0
        ELSE CASE dot_product = 0 -> 900
               [] d2 = mm /\ dot_product > 0 -> 0
               [] d2 = mm /\ dot_product < 0 -> 1800
               [] 2 * d2 = mm /\ dot_product > 0 -> 450
               [] 2 * d2 = mm /\ dot_product < 0 -> 1350
               [] 4 * d2 = mm /\ dot_product > 0 -> 600
               [] 4 * d2 = mm /\ dot_product < 0 -> 1200
               [] 4 * d2 = 3 * mm /\ dot_product > 0 -> 300
               [] 4 * d2 = 3 * mm /\ dot_product < 0 -> 1500

\* calculate_depth_ratio(hip, knee, ankle): knee_y / |hip_y - ankle_y| * 100,
\* kept to two decimals (hundredths), 0 when the span is below 1e-6.
calculate_depth_ratio(hip, knee, ankle) ==
    LET hip_to_ankle == Abs(hip.y - ankle.y)
    IN  IF hip_to_ankle = 0 THEN 0
        ELSE (knee.y * 10000) \div hip_to_ankle

\* calculate_shoulder_midfoot_diff(shoulder, hip, knee, ankle):
\* (shoulder_x - ankle_x) * 100, signed, in tenths.
calculate_shoulder_midfoot_diff(shoulder, hip, knee, ankle) ==
    (shoulder.x - ankle.x) * 10

-----------------------------------------------------------------------------
(* Measurement extraction (process_frame)                                   *)

VIS_THR == 15

\* joints_visible(ids, lm_arr)
joints_visible_strict(ids, lm_arr) ==
    \A idx \in ids : lm_arr[idx].visibility >= VIS_THR

joints_visible(ids, lm_arr) ==
    \A idx \in ids :
        \/ lm_arr[idx].visibility >= VIS_THR
        \/ lm_arr[idx].x # 0
        \/ lm_arr[idx].y # 0

RightLeg == {RIGHT_HIP, RIGHT_KNEE, RIGHT_ANKLE}
LeftLeg == {LEFT_HIP, LEFT_KNEE, LEFT_ANKLE}

RightKneeAngle(lm) ==
    IF joints_visible(RightLeg, lm)
    THEN Some(calculate_angle(lm[RIGHT_HIP], lm[RIGHT_KNEE], lm[RIGHT_ANKLE]))
    ELSE None

LeftKneeAngle(lm) ==
    IF joints_visible(LeftLeg, lm)
    THEN Some(calculate_angle(lm[LEFT_HIP], lm[LEFT_KNEE], lm[LEFT_ANKLE]))
    ELSE None

\* knee_angle = min(knee_angle_candidates), None without candidates.
KneeAngle(lm) ==
    LET r == RightKneeAngle(lm)
        l == LeftKneeAngle(lm)
    IN  IF IsNone(r) THEN l
        ELSE IF IsNone(l) THEN r
        ELSE Some(MinOf(Val(r), Val(l)))

\* The locals hip, knee, ankle are bound only inside the right-side branch:
\* reading them at line 1199 without that branch having run raises
\* UnboundLocalError.
DepthReadsUnbound(lm) ==
    ~IsNone(KneeAngle(lm)) /\ ~joints_visible(RightLeg, lm)

\* depth_ratio as line 1200 computes it: from hip, knee, ankle, which are the
\* right side's.
DepthRatio(lm) ==
    IF IsNone(KneeAngle(lm)) THEN None
    ELSE Some(calculate_depth_ratio(lm[RIGHT_HIP], lm[RIGHT_KNEE], lm[RIGHT_ANKLE]))

\* shoulder_midfoot_diff: the diff of larger magnitude of the usable sides,
\* the right one first on a tie (max(..., key=abs) keeps the first maximum).
ShoulderMidfootDiff(lm) ==
    LET r == IF joints_visible({RIGHT_SHOULDER} \cup RightLeg, lm)
             THEN Some(calculate_shoulder_midfoot_diff(lm[RIGHT_SHOULDER],
                        lm[RIGHT_HIP], lm[RIGHT_KNEE], lm[RIGHT_ANKLE]))
             ELSE None
        l == IF joints_visible({LEFT_SHOULDER} \cup LeftLeg, lm)
             THEN Some(calculate_shoulder_midfoot_diff(lm[LEFT_SHOULDER],
                        lm[LEFT_HIP], lm[LEFT_KNEE], lm[LEFT_ANKLE]))
             ELSE None
    IN  IF IsNone(r) THEN l
        ELSE IF IsNone(l) THEN r
        ELSE IF Abs(Val(r)) >= Abs(Val(l)) THEN r ELSE l

Measurements(lm) ==
    [kneeAngle |-> KneeAngle(lm),
     depthRatio |-> DepthRatio(lm),
     shoulderMidfootDiff |-> ShoulderMidfootDiff(lm)]

-----------------------------------------------------------------------------
(* Status of a frame record (aggregate_results)                             *)

SPINE_VIS == 50
DEPTH_GOOD == 85
DEPTH_WARN == 60

\* ok(idx) of aggregate_results: idx < len(lm) holds for every joint of the
\* 33-landmark record.
SpineOk(idx, lm) == lm[idx].visibility >= SPINE_VIS

RightTorso == {RIGHT_SHOULDER, RIGHT_HIP, RIGHT_KNEE}
LeftTorso == {LEFT_SHOULDER, LEFT_HIP, LEFT_KNEE}

\* The side back_angle is computed from: the right side first.
BackAngleSide(lm) ==
    IF \A j \in RightTorso : SpineOk(j, lm) THEN "right"
    ELSE IF \A j \in LeftTorso : SpineOk(j, lm) THEN "left"
    ELSE "none"

\* calculate_angle(a, b, c) <= theta for an angle theta <= 90 degrees whose
\* squared cosine is n / d.  A zero-length ray gives the angle 0.
AngleAtMost(a, b, c, n, d) ==
    LET ba_x == a.x - b.x
        ba_y == a.y - b.y
        bc_x == c.x - b.x
        bc_y == c.y - b.y
        dot_product == ba_x * bc_x + ba_y * bc_y
        mm == (ba_x * ba_x + ba_y * ba_y) * (bc_x * bc_x + bc_y * bc_y)
    IN  mm = 0 \/ (dot_product >= 0 /\ d * dot_product * dot_product >= n * mm)

\* spine_status: back_angle <= SPINE_GOOD (45 degrees, squared cosine 1/2) is
\* good, <= SPINE_WARN (55 degrees, squared cosine 0.3290) is warn, above is
\* bad, and warn without a back angle.  No angle of the landmark grid lies
\* between 54.9 and 55 degrees, where 33/100 and the exact squared cosine
\* would differ.
SpineStatus(lm) ==
    LET side == BackAngleSide(lm)
        s == IF side = "right" THEN RIGHT_SHOULDER ELSE LEFT_SHOULDER
        h == IF side = "right" THEN RIGHT_HIP ELSE LEFT_HIP
        k == IF side = "right" THEN RIGHT_KNEE ELSE LEFT_KNEE
    IN  IF side = "none" THEN "warn"
        ELSE IF AngleAtMost(lm[s], lm[h], lm[k], 1, 2) THEN "good"
        ELSE IF AngleAtMost(lm[s], lm[h], lm[k], 33, 100) THEN "warn"
        ELSE "bad"

\* knee_status from depthRatio (hundredths): a raw value above 1.5 is a
\* percentage and is divided by 100 first.
KneeStatus(depth_raw) ==
    IF IsNone(depth_raw) THEN "warn"
    ELSE LET raw == Val(depth_raw)
             ratio10000 == IF raw > 150 THEN raw ELSE raw * 100
         IN  IF ratio10000 >= DEPTH_GOOD * 100 THEN "good"
             ELSE IF ratio10000 >= DEPTH_WARN * 100 THEN "warn"
             ELSE "bad"

-----------------------------------------------------------------------------
(* Inputs of process_frame: landmark records on a grid                      *)

\* A leg is (hip, knee, ankle).  Knee at (50,60) in every visible pose.
Leg(h, k, a) == [hip |-> h, knee |-> k, ankle |-> a]

LegStanding == Leg(Pt(50, 40, 90), Pt(50, 60, 90), Pt(50, 80, 90))   \* 180 deg
LegHalf     == Leg(Pt(30, 40, 90), Pt(50, 60, 90), Pt(50, 80, 90))   \* 135 deg
LegParallel == Leg(Pt(30, 60, 90), Pt(50, 60, 90), Pt(50, 80, 90))   \*  90 deg
LegDeep     == Leg(Pt(30, 80, 90), Pt(50, 60, 90), Pt(50, 90, 90))   \*  45 deg
\* hip reported on the knee with low confidence: a zero-length ray
LegDegenerate == Leg(Pt(50, 60, 10), Pt(50, 60, 10), Pt(50, 80, 10))
\* the side is not usable: the knee is a zero placeholder
LegHidden   == Leg(Pt(50, 40, 90), ZeroPt, Pt(50, 80, 90))

LegPoses == {LegStanding, LegHalf, LegParallel, LegDeep, LegDegenerate, LegHidden}

ShoulderPts == {Pt(50, 20, 90), Pt(56, 20, 90), ZeroPt}

Landmarks(rs, rleg, ls, lleg) ==
    [j \in Joints |->
        CASE j = RIGHT_SHOULDER -> rs
          [] j = RIGHT_HIP -> rleg.hip
          [] j = RIGHT_KNEE -> rleg.knee
          [] j = RIGHT_ANKLE -> rleg.ankle
          [] j = LEFT_SHOULDER -> ls
          [] j = LEFT_HIP -> lleg.hip
          [] j = LEFT_KNEE -> lleg.knee
          [] j = LEFT_ANKLE -> lleg.ankle]

FrameLandmarks ==
    {Landmarks(rs, rleg, ls, lleg) :
        rs \in ShoulderPts, rleg \in LegPoses, ls \in ShoulderPts, lleg \in LegPoses}

-----------------------------------------------------------------------------
(* Specification of one frame: process_frame, then aggregate_results on the *)
(* record it returned                                                       *)

FrameInit ==
    /\ pc = "detect"
    /\ detection \in {None} \cup {Some(lm) : lm \in FrameLandmarks}
    /\ frame_out = None
    /\ results = <<>>
    /\ current_best_knee_angle = 1800
    /\ current_worst_shoulder_diff = 0
    /\ last_scores = InitScores
    /\ global_min_knee_angle = 1800
    /\ final_scores = None
    /\ video = None
    /\ disk = {}
    /\ temp_path = None
    /\ original_duration = None
    /\ original_frame_count = None
    /\ cap_opened = FALSE
    /\ fps = 0
    /\ frame_count = 0
    /\ target_len = 0
    /\ frames_to_process = <<>>
    /\ response = None
    /\ fallback_decodes = 0
    /\ probe_output = None
    /\ probe_result = None
    /\ source_dims = None
    /\ frame_img = None
    /\ decode_loop = <<>>
    /\ previous_states = <<>>
    /\ squat_counts = <<>>
    /\ squat_timings = <<>>
    /\ transitions = <<>>
    /\ last_call = <<>>

\* if not detection_result.pose_landmarks: return None
FrameNoPose ==
    /\ pc = "detect"
    /\ IsNone(detection)
    /\ frame_out' = Some([kind |-> "none"])
    /\ pc' = "returned"
    /\ UNCHANGED <<Elsewhere, sampleVars, probeVars, detection, trackVars, reqVars>>

\* the measurements are computed and the record is returned
FrameMeasured ==
    /\ pc = "detect"
    /\ ~IsNone(detection)
    /\ ~DepthReadsUnbound(Val(detection))
    /\ frame_out' = Some([kind |-> "record",
                          measurements |-> Measurements(Val(detection))])
    /\ pc' = "returned"
    /\ UNCHANGED <<Elsewhere, sampleVars, probeVars, detection, trackVars, reqVars>>

\* line 1199 reads the unbound local hip
FrameRaises ==
    /\ pc = "detect"
    /\ ~IsNone(detection)
    /\ DepthReadsUnbound(Val(detection))
    /\ frame_out' = Some([kind |-> "raise"])
    /\ pc' = "returned"
    /\ UNCHANGED <<Elsewhere, sampleVars, probeVars, detection, trackVars, reqVars>>

\* aggregate_results on the returned record: f['status'] is attached.
\* back_angle_side records which side's joints the gate ok() let through.
FrameAggregated ==
    /\ pc = "returned"
    /\ Val(frame_out).kind = "record"
    /\ frame_out' = Some([kind |-> "record",
                          measurements |-> Val(frame_out).measurements,
                          back_angle_side |-> BackAngleSide(Val(detection)),
                          status |-> [spine |-> SpineStatus(Val(detection)),
                                      knee |-> KneeStatus(Val(frame_out).measurements.depthRatio)]])
    /\ pc' = "aggregated"
    /\ UNCHANGED <<Elsewhere, sampleVars, probeVars, detection, trackVars, reqVars>>

\* the scoring loop (lines 1340-1445) on the record as the first frame of the
\* result: the running values and the frame's scores
FrameScored ==
    /\ pc = "aggregated"
    /\ LET s == ScoreStep([landmarks |-> Val(detection),
                           measurements |-> Val(frame_out).measurements],
                          current_best_knee_angle, current_worst_shoulder_diff,
                          last_scores, global_min_knee_angle)
       IN  /\ current_best_knee_angle' = s.best
           /\ current_worst_shoulder_diff' = s.worst
           /\ last_scores' = s.scores
           /\ global_min_knee_angle' = s.gmin
    /\ pc' = "scored"
    /\ UNCHANGED <<Elsewhere, sampleVars, probeVars, frameVars, results, final_scores, reqVars>>

FrameNext ==
    FrameNoPose \/ FrameMeasured \/ FrameRaises \/ FrameAggregated \/ FrameScored

SpecFrame == FrameInit /\ [][FrameNext]_vars

\* C5: depth_ratio of a returned record is computed from the hip, knee and
\* ankle of the side whose knee angle was selected: the side with the smaller
\* knee angle when both sides are usable, the only usable side otherwise.
C5_DepthRatioFromSelectedSide ==
    (pc = "returned" /\ Val(frame_out).kind = "record"
        /\ ~IsNone(Val(frame_out).measurements.kneeAngle)) =>
        LET lm == Val(detection)
            r == RightKneeAngle(lm)
            l == LeftKneeAngle(lm)
            right == Some(calculate_depth_ratio(lm[RIGHT_HIP], lm[RIGHT_KNEE], lm[RIGHT_ANKLE]))
            left == Some(calculate_depth_ratio(lm[LEFT_HIP], lm[LEFT_KNEE], lm[LEFT_ANKLE]))
            dr == Val(frame_out).measurements.depthRatio
        IN  /\ (~IsNone(r) /\ (IsNone(l) \/ Val(r) < Val(l))) => dr = right
            /\ (~IsNone(l) /\ (IsNone(r) \/ Val(l) < Val(r))) => dr = left
            /\ (~IsNone(l) /\ ~IsNone(r) /\ Val(l) = Val(r)) => dr \in {left, right}

\* The leg's hip or ankle coincides with its knee (a zero-length ray), and
\* one of the three keypoints has a confidence below the visibility threshold.
C26_DegenerateLowConfidence(lm, hip, knee, ankle) ==
    /\ \/ (lm[hip].x = lm[knee].x /\ lm[hip].y = lm[knee].y)
       \/ (lm[ankle].x = lm[knee].x /\ lm[ankle].y = lm[knee].y)
    /\ \E j \in {hip, knee, ankle} : lm[j].visibility < 15

\* C26: when the frame's knee angle is a 0 that comes only from degenerate
\* keypoints of low confidence, the tracker treats it as unknown: the best
\* knee angle stays at 180 and the depth score at 0.
C26_DegenerateZeroIsUnknown ==
    (/\ pc = "scored"
     /\ Val(frame_out).measurements.kneeAngle = Some(0)
     /\ LET lm == Val(detection)
        IN  /\ ~IsNone(RightKneeAngle(lm)) =>
                  C26_DegenerateLowConfidence(lm, RIGHT_HIP, RIGHT_KNEE, RIGHT_ANKLE)
            /\ ~IsNone(LeftKneeAngle(lm)) =>
                  C26_DegenerateLowConfidence(lm, LEFT_HIP, LEFT_KNEE, LEFT_ANKLE)) =>
        /\ current_best_knee_angle = 1800
        /\ last_scores.knee_depth = 0

\* The gate of the measurement extractor on one landmark: confidence at
\* least 0.15, or non-zero coordinates.
C15_Usable(pt) == pt.visibility >= 15 \/ pt.x # 0 \/ pt.y # 0
C15_AllUsable(ids, lm) == \A j \in ids : C15_Usable(lm[j])

\* C15: in a returned record kneeAngle is null exactly when on neither side
\* hip, knee and ankle are all usable, depthRatio is null exactly when
\* kneeAngle is null, and shoulderMidfootDiff is null exactly when on neither
\* side shoulder, hip, knee and ankle are all usable.
C15_NullIffUnusable ==
    (pc = "returned" /\ Val(frame_out).kind = "record") =>
        LET lm == Val(detection)
            m == Val(frame_out).measurements
        IN  /\ IsNone(m.kneeAngle) <=>
                 (~C15_AllUsable(RightLeg, lm) /\ ~C15_AllUsable(LeftLeg, lm))
            /\ IsNone(m.depthRatio) <=> IsNone(m.kneeAngle)
            /\ IsNone(m.shoulderMidfootDiff) <=>
                 (/\ ~C15_AllUsable({RIGHT_SHOULDER} \cup RightLeg, lm)
                  /\ ~C15_AllUsable({LEFT_SHOULDER} \cup LeftLeg, lm))

\* C15 witness: the right leg is usable only through its non-zero
\* coordinates, the left leg and both shoulders are not usable: the record
\* has a knee angle and a depth ratio and no shoulder diff.
C15_Witness ==
    /\ pc = "returned"
    /\ Val(frame_out).kind = "record"
    /\ Val(detection)[RIGHT_KNEE].visibility < 15
    /\ ~C15_AllUsable(LeftLeg, Val(detection))
    /\ ~IsNone(Val(frame_out).measurements.kneeAngle)
    /\ ~IsNone(Val(frame_out).measurements.depthRatio)
    /\ IsNone(Val(frame_out).measurements.shoulderMidfootDiff)

\* C16: the spine status is computed from the side whose shoulder, hip and
\* knee the gate of the measurement extractor accepts (right side first):
\* both call sites accept and reject the same joints.
C16_SameGate ==
    pc = "aggregated" =>
        LET lm == Val(detection)
        IN  Val(frame_out).back_angle_side =
                IF C15_AllUsable(RightTorso, lm) THEN "right"
                ELSE IF C15_AllUsable(LeftTorso, lm) THEN "left"
                ELSE "none"

-----------------------------------------------------------------------------
(* Metadata probe (get_video_properties)                                    *)

\* One field of the ffprobe stream object: the key is missing, or its value
\* is the string "N/A", some other text that is no number, a decimal number
\* n/d, or (r_frame_rate) a fraction "num/den".
Missing == [kind |-> "missing"]
NA == [kind |-> "N/A"]
Text == [kind |-> "text"]
Decimal(n, d) == [kind |-> "decimal", n |-> n, d |-> d]
Fraction(num, den) == [kind |-> "fraction", num |-> num, den |-> den]

\* float(duration_str) if duration_str else None.  float("N/A") and float of
\* other text raise ValueError.
ParseDuration(f) ==
    CASE f.kind = "missing" -> [raises |-> FALSE, value |-> None]
      [] f.kind = "decimal" -> [raises |-> FALSE, value |-> Some(Rat(f.n, f.d))]
      [] OTHER -> [raises |-> TRUE, value |-> None]

\* int(nb_frames_str) under its own try: "N/A", text and a decimal with a
\* fraction part give None.
ParseNbFrames(f) ==
    IF f.kind = "decimal" /\ f.d = 1 THEN Some(f.n) ELSE None

\* fps from r_frame_rate: only a value containing '/' is split; "N/A" contains
\* one and int("N") raises ValueError.  den <= 0 leaves fps None.
ParseFrameRate(f) ==
    CASE f.kind = "fraction" ->
           [raises |-> FALSE,
            value |-> IF f.den > 0 THEN Some(Rat(f.num, f.den)) ELSE None]
      [] f.kind = "N/A" -> [raises |-> TRUE, value |-> None]
      [] OTHER -> [raises |-> FALSE, value |-> None]

\* int(duration * fps)
EstimateNbFrames_rounded(duration, rate) ==
    RoundHalfEven(duration.n * rate.n, duration.d * rate.d)

EstimateNbFrames(duration, rate) ==
    TruncDiv(duration.n * rate.n, duration.d * rate.d)

NoProperties == [duration |-> None, nb_frames |-> None, fps |-> None]

\* get_video_properties on the stream object st: any exception gives
\* (None, None, None).
get_video_properties(st) ==
    LET dur == ParseDuration(st.duration)
        nb == ParseNbFrames(st.nb_frames)
        rate == ParseFrameRate(st.r_frame_rate)
        positive == ~IsNone(rate.value) /\ Val(rate.value).n > 0
    IN  IF dur.raises \/ rate.raises THEN NoProperties
        ELSE IF IsNone(nb) /\ ~IsNone(dur.value) /\ positive
        THEN [duration |-> dur.value,
              nb_frames |-> Some(EstimateNbFrames(Val(dur.value), Val(rate.value))),
              fps |-> rate.value]
        ELSE IF IsNone(dur.value) /\ ~IsNone(nb) /\ positive
        THEN [duration |-> Some(RatDiv(Rat(Val(nb), 1), Val(rate.value))),
              nb_frames |-> nb,
              fps |-> rate.value]
        ELSE [duration |-> dur.value, nb_frames |-> nb, fps |-> rate.value]

\* Probe outputs: the fields of the first video stream, an ffprobe run that
\* exits with an error, and an output without a stream.
DurationFields == {Missing, NA, Decimal(10, 1), Decimal(1, 2)}
NbFramesFields == {Missing, NA, Text, Decimal(300, 1), Decimal(0, 1)}
FrameRateFields == {Missing, NA, Fraction(30, 1), Fraction(30000, 1001),
                    Fraction(0, 1), Fraction(0, 0)}

ProbeOutputs ==
    {[kind |-> "stream", duration |-> d, nb_frames |-> n, r_frame_rate |-> r] :
        d \in DurationFields, n \in NbFramesFields, r \in FrameRateFields}
    \cup {[kind |-> "exit_error"], [kind |-> "no_stream"]}

ProbeInit ==
    /\ pc = "ffprobe"
    /\ probe_output \in ProbeOutputs
    /\ probe_result = None
    /\ source_dims = None
    /\ frame_img = None
    /\ decode_loop = <<>>
    /\ previous_states = <<>>
    /\ squat_counts = <<>>
    /\ squat_timings = <<>>
    /\ transitions = <<>>
    /\ last_call = <<>>
    /\ results = <<>>
    /\ current_best_knee_angle = 1800
    /\ current_worst_shoulder_diff = 0
    /\ last_scores = InitScores
    /\ global_min_knee_angle = 1800
    /\ final_scores = None
    /\ detection = None
    /\ frame_out = None
    /\ video = None
    /\ disk = {}
    /\ temp_path = None
    /\ original_duration = None
    /\ original_frame_count = None
    /\ cap_opened = FALSE
    /\ fps = 0
    /\ frame_count = 0
    /\ target_len = 0
    /\ frames_to_process = <<>>
    /\ response = None
    /\ fallback_decodes = 0

\* subprocess.CalledProcessError, or streams[0] of an empty list
ProbeRunFails ==
    /\ pc = "ffprobe"
    /\ probe_output.kind # "stream"
    /\ probe_result' = Some(NoProperties)
    /\ pc' = "probed"
    /\ UNCHANGED <<Elsewhere, sampleVars, probe_output, trackVars, frameVars, reqVars>>

\* the stream object is parsed and the properties are returned
ProbeReturns ==
    /\ pc = "ffprobe"
    /\ probe_output.kind = "stream"
    /\ probe_result' = Some(get_video_properties(probe_output))
    /\ pc' = "probed"
    /\ UNCHANGED <<Elsewhere, sampleVars, probe_output, trackVars, frameVars, reqVars>>

ProbeNext == ProbeRunFails \/ ProbeReturns

SpecProbe == ProbeInit /\ [][ProbeNext]_vars

\* What a field is when "N/A" and unparsable values count as absent.
C17_Duration(f) == IF f.kind = "decimal" THEN Some(Rat(f.n, f.d)) ELSE None
C17_NbFrames(f) == IF f.kind = "decimal" /\ f.d = 1 THEN Some(f.n) ELSE None
C17_Rate(f) == IF f.kind = "fraction" /\ f.den > 0 THEN Some(Rat(f.num, f.den)) ELSE None

\* C17: a field that is "N/A" or unparsable is absent for that field only:
\* every other field that parses is returned, and a duration that is absent
\* is derived from nb_frames and a positive frame rate.
C17_FieldsAbsentIndividually ==
    (pc = "probed" /\ probe_output.kind = "stream") =>
        LET d == C17_Duration(probe_output.duration)
            n == C17_NbFrames(probe_output.nb_frames)
            r == C17_Rate(probe_output.r_frame_rate)
            res == Val(probe_result)
        IN  /\ ~IsNone(d) => res.duration = d
            /\ ~IsNone(n) => res.nb_frames = n
            /\ ~IsNone(r) => res.fps = r
            /\ (IsNone(d) /\ ~IsNone(n) /\ ~IsNone(r) /\ Val(r).n > 0) =>
                  res.duration = Some(RatDiv(Rat(Val(n), 1), Val(r)))

\* C18 (as stated): with a duration, a frame rate whose denominator is
\* positive and nb_frames missing or "N/A", the result has frame_count =
\* int(duration x fps) and the duration and fps as probed.
C18_FrameCountFromDuration ==
    (/\ pc = "probed" /\ probe_output.kind = "stream"
     /\ probe_output.duration.kind = "decimal"
     /\ probe_output.r_frame_rate.kind = "fraction"
     /\ probe_output.r_frame_rate.den > 0
     /\ probe_output.nb_frames.kind \in {"missing", "N/A"}) =>
        LET d == Rat(probe_output.duration.n, probe_output.duration.d)
            r == Rat(probe_output.r_frame_rate.num, probe_output.r_frame_rate.den)
        IN  Val(probe_result) =
                [duration |-> Some(d), fps |-> Some(r),
                 nb_frames |-> Some(TruncDiv(d.n * r.n, d.d * r.d))]

\* C18 (amended): the same with a frame rate whose numerator and denominator
\* are both positive; with a frame rate of 0 the frame count stays absent
\* and the duration and fps are returned as probed.
C18_FrameCountFromDurationPositiveRate ==
    (/\ pc = "probed" /\ probe_output.kind = "stream"
     /\ probe_output.duration.kind = "decimal"
     /\ probe_output.r_frame_rate.kind = "fraction"
     /\ probe_output.r_frame_rate.den > 0
     /\ probe_output.nb_frames.kind \in {"missing", "N/A"}) =>
        LET d == Rat(probe_output.duration.n, probe_output.duration.d)
            r == Rat(probe_output.r_frame_rate.num, probe_output.r_frame_rate.den)
        IN  Val(probe_result) =
                [duration |-> Some(d), fps |-> Some(r),
                 nb_frames |-> IF r.n > 0 THEN Some(TruncDiv(d.n * r.n, d.d * r.d))
                               ELSE None]

\* C18 witness: duration 10.0, nb_frames "N/A" and 30000/1001 frames per
\* second give 299 frames (299.7 truncated).
C18_Witness ==
    /\ pc = "probed"
    /\ probe_output.kind = "stream"
    /\ probe_output.duration = Decimal(10, 1)
    /\ probe_output.nb_frames = NA
    /\ probe_output.r_frame_rate = Fraction(30000, 1001)
    /\ Val(probe_result).nb_frames = Some(299)
    /\ Val(probe_result).duration = Some(Rat(10, 1))

-----------------------------------------------------------------------------
(* One frame from the capture to the pose oracle (orientation and size)     *)

MAX_HEIGHT == 720
MAX_WIDTH == 1280

\* Resolutions of the capture: height x width of 720p, 1080p and 4K in both
\* orientations, VGA, a square and sizes next to the thresholds.
SourceDims ==
    {[width |-> 1280, height |-> 720], [width |-> 720, height |-> 1280],
     [width |-> 1920, height |-> 1080], [width |-> 1080, height |-> 1920],
     [width |-> 3840, height |-> 2160], [width |-> 2160, height |-> 3840],
     [width |-> 640, height |-> 480], [width |-> 1000, height |-> 1000],
     [width |-> 1282, height |-> 720], [width |-> 1280, height |-> 722]}

\* The strategies of the cascade (lines 917-1040).
Strategies == {"keyframe", "sequential", "ffmpeg", "imageio"}

\* is_portrait_video = height > width (line 819)
IsPortrait(dims) == dims.height > dims.width

\* The decoded frame of a strategy, before any processing.
RawFrame(dims, strategy) ==
    [width |-> dims.width, height |-> dims.height, rotations |-> 0,
     resizes |-> 0, by |-> strategy]

\* cv2.rotate(frame, cv2.ROTATE_90_CLOCKWISE)
Rotate90(img) ==
    [img EXCEPT !.width = img.height, !.height = img.width,
                !.rotations = img.rotations + 1]

\* if is_portrait_video: frame = cv2.rotate(...)
OrientFrame_always(img, is_portrait_video) == Rotate90(img)

OrientFrame(img, is_portrait_video) ==
    IF is_portrait_video THEN Rotate90(img) ELSE img

\* if frame.shape[0] > 720 or frame.shape[1] > 1280:
\*     frame = cv2.resize(frame, (0, 0), fx=0.5, fy=0.5)
\* cv2.resize rounds each side of the new size to the nearest integer.
Downscale(img) ==
    IF img.height > MAX_HEIGHT \/ img.width > MAX_WIDTH
    THEN [img EXCEPT !.width = RoundHalfEven(img.width, 2),
                     !.height = RoundHalfEven(img.height, 2),
                     !.resizes = img.resizes + 1]
    ELSE img

\* A frame appended by extract_frames (lines 459-468).
ExtractFramesImage(dims) ==
    Downscale(OrientFrame(RawFrame(dims, "fallback"), IsPortrait(dims)))

SampleInit ==
    /\ pc = "cascade"
    /\ source_dims \in {Some(d) : d \in SourceDims}
    /\ frame_img = None
    /\ decode_loop = <<>>
    /\ previous_states = <<>>
    /\ squat_counts = <<>>
    /\ squat_timings = <<>>
    /\ transitions = <<>>
    /\ last_call = <<>>
    /\ probe_output = None
    /\ probe_result = None
    /\ results = <<>>
    /\ current_best_knee_angle = 1800
    /\ current_worst_shoulder_diff = 0
    /\ last_scores = InitScores
    /\ global_min_knee_angle = 1800
    /\ final_scores = None
    /\ detection = None
    /\ frame_out = None
    /\ video = None
    /\ disk = {}
    /\ temp_path = None
    /\ original_duration = None
    /\ original_frame_count = None
    /\ cap_opened = FALSE
    /\ fps = 0
    /\ frame_count = 0
    /\ target_len = 0
    /\ frames_to_process = <<>>
    /\ response = None
    /\ fallback_decodes = 0

\* the strategy whose list the cascade keeps decoded the frame (lines 919-925,
\* 956-960, 1005-1011, 1031-1036)
StrategyExtracts ==
    /\ pc = "cascade"
    /\ \E strategy \in Strategies :
         frame_img' = Some(OrientFrame(RawFrame(Val(source_dims), strategy),
                                       IsPortrait(Val(source_dims))))
    /\ pc' = "coverage"
    /\ UNCHANGED <<Elsewhere, source_dims, probeVars, trackVars, frameVars, reqVars>>

\* no strategy of the cascade obtained the frame
StrategyMisses ==
    /\ pc = "cascade"
    /\ pc' = "coverage"
    /\ UNCHANGED <<Elsewhere, sampleVars, probeVars, trackVars, frameVars, reqVars>>

\* coverage < 0.8: the list is replaced by that of extract_frames (line 1062)
FallbackExtracts ==
    /\ pc = "coverage"
    /\ frame_img' = Some(ExtractFramesImage(Val(source_dims)))
    /\ pc' = "resize"
    /\ UNCHANGED <<Elsewhere, source_dims, probeVars, trackVars, frameVars, reqVars>>

\* coverage >= 0.8: the list of the cascade is kept
FallbackSkipped ==
    /\ pc = "coverage"
    /\ ~IsNone(frame_img)
    /\ pc' = "resize"
    /\ UNCHANGED <<Elsewhere, sampleVars, probeVars, trackVars, frameVars, reqVars>>

\* lines 1068-1071; the frame then goes to process_frame as it is
ResizeLarge ==
    /\ pc = "resize"
    /\ frame_img' = Some(Downscale(Val(frame_img)))
    /\ pc' = "oracle"
    /\ UNCHANGED <<Elsewhere, source_dims, probeVars, trackVars, frameVars, reqVars>>

SampleNext ==
    \/ StrategyExtracts \/ StrategyMisses \/ FallbackExtracts \/ FallbackSkipped
    \/ ResizeLarge

SpecSample == SampleInit /\ [][SampleNext]_vars

\* C22: a frame of a portrait video (height > width) reaches the pose oracle
\* rotated exactly once, whichever strategy or fallback supplied it; a frame
\* of a landscape video reaches it unrotated.
C22_RotatedExactlyOnce ==
    (pc = "oracle") =>
        Val(frame_img).rotations =
            (IF Val(source_dims).height > Val(source_dims).width THEN 1 ELSE 0)

\* C22 witness: a frame of a 1080 x 1920 portrait video supplied by the
\* sequential fallback reaches the oracle rotated once, 960 wide and 540 high.
C22_Witness ==
    /\ pc = "oracle"
    /\ source_dims = Some([width |-> 1080, height |-> 1920])
    /\ Val(frame_img).by = "fallback"
    /\ Val(frame_img).rotations = 1
    /\ Val(frame_img).width = 960
    /\ Val(frame_img).height = 540

\* C28: every frame handed to the pose oracle is at most 720 high and 1280
\* wide, for every source resolution and every strategy or fallback.
C28_FrameSizeBounded ==
    (pc = "oracle") =>
        (Val(frame_img).height <= 720 /\ Val(frame_img).width <= 1280)

-----------------------------------------------------------------------------
(* The decode loops of the sampler, one decoder outcome at a time           *)

MAX_CONSECUTIVE_FAILURES == 30

\* (frame_count, len(target_frames)) of a loop: no frame, a few frames, one
\* frame in two sampled, every frame sampled, and a target reached early.
LoopSizes ==
    {[frame_count |-> 0, n_target |-> 10], [frame_count |-> 3, n_target |-> 10],
     [frame_count |-> 12, n_target |-> 10], [frame_count |-> 60, n_target |-> 30],
     [frame_count |-> 60, n_target |-> 60]}

LoopKinds == {"keyframe", "sequential", "extract_frames"}

\* keyframe_interval = max(1, frame_count // max_keyframes)
KeyframeInterval(l) == MaxOf(1, l.frame_count \div MinOf(180, l.n_target))

\* sample_interval = max(1, frame_count // min(200, len(target_frames)))
SampleInterval(l) == MaxOf(1, l.frame_count \div MinOf(200, l.n_target))

\* The locals of a loop before its first statement.  attempts counts the
\* calls of cap.read() and cap.grab(), failed_run the failed ones in a row
\* up to now.
LoopStart(kind, size) ==
    [kind |-> kind, frame_count |-> size.frame_count, n_target |-> size.n_target,
     current_idx |-> 0, frames_read |-> 0, got |-> 0, consecutive_failures |-> 0,
     success |-> FALSE, attempts |-> 0, failed_run |-> 0,
     status |-> IF kind = "extract_frames" THEN "start" ELSE "running"]

\* one decoder call with outcome ret
Attempted(l, ret) ==
    [l EXCEPT !.attempts = l.attempts + 1,
              !.failed_run = IF ret THEN 0 ELSE l.failed_run + 1]

\* One iteration of the keyframe loop (lines 919-927) at frame_idx =
\* current_idx: seek, read, append, stop at max_keyframes.
KeyframeIteration(l, ret) ==
    LET got2 == IF ret THEN l.got + 1 ELSE l.got
    IN  [Attempted(l, ret) EXCEPT
            !.got = got2,
            !.current_idx = l.current_idx + KeyframeInterval(l),
            !.status = IF got2 >= MinOf(180, l.n_target) THEN "enough" ELSE "running"]

\* One iteration of the sequential loop (lines 952-976): a read at a sampled
\* index, a grab at any other.
SequentialIteration(l, ret) ==
    LET sampled == l.current_idx % SampleInterval(l) = 0
        got2 == IF sampled /\ ret THEN l.got + 1 ELSE l.got
        failures == IF ret THEN (IF sampled THEN 0 ELSE l.consecutive_failures)
                    ELSE l.consecutive_failures + 1
        a == [Attempted(l, ret) EXCEPT !.got = got2, !.consecutive_failures = failures]
    IN  IF ~ret /\ failures >= MAX_CONSECUTIVE_FAILURES
        THEN [a EXCEPT !.status = "aborted"]
        ELSE [a EXCEPT !.current_idx = l.current_idx + 1,
                       !.frames_read = l.frames_read + 1,
                       !.status = IF got2 >= MinOf(200, l.n_target)
                                  THEN "enough" ELSE "running"]

\* while success and current_idx < frame_count (line 458)
ExtractContinues_inclusive(success, current_idx, count) ==
    success /\ current_idx <= count

ExtractContinues(success, current_idx, count) ==
    success /\ current_idx < count

\* One iteration of extract_frames (lines 458-472) with frame_skip = 1: the
\* frame read last is appended and the next one is read.
ExtractIteration(l, ret) ==
    [Attempted(l, ret) EXCEPT !.got = l.got + 1,
                              !.success = ret,
                              !.current_idx = l.current_idx + 1]

\* The guard of the loop at its head.
LoopGuard(l) ==
    CASE l.kind = "keyframe" -> l.current_idx < l.frame_count
      [] l.kind = "sequential" -> l.frames_read < l.frame_count
      [] l.kind = "extract_frames" ->
           ExtractContinues(l.success, l.current_idx, l.frame_count)

LoopInit ==
    /\ pc = "loop"
    /\ decode_loop \in {Some(LoopStart(k, sz)) : k \in LoopKinds, sz \in LoopSizes}
    /\ source_dims = None
    /\ frame_img = None
    /\ previous_states = <<>>
    /\ squat_counts = <<>>
    /\ squat_timings = <<>>
    /\ transitions = <<>>
    /\ last_call = <<>>
    /\ probe_output = None
    /\ probe_result = None
    /\ results = <<>>
    /\ current_best_knee_angle = 1800
    /\ current_worst_shoulder_diff = 0
    /\ last_scores = InitScores
    /\ global_min_knee_angle = 1800
    /\ final_scores = None
    /\ detection = None
    /\ frame_out = None
    /\ video = None
    /\ disk = {}
    /\ temp_path = None
    /\ original_duration = None
    /\ original_frame_count = None
    /\ cap_opened = FALSE
    /\ fps = 0
    /\ frame_count = 0
    /\ target_len = 0
    /\ frames_to_process = <<>>
    /\ response = None
    /\ fallback_decodes = 0

\* success, frame = cap.read() before the loop of extract_frames (line 457)
ExtractFirstRead ==
    /\ pc = "loop"
    /\ Val(decode_loop).status = "start"
    /\ \E ret \in BOOLEAN :
         decode_loop' = Some([Attempted(Val(decode_loop), ret) EXCEPT
                                 !.success = ret, !.status = "running"])
    /\ UNCHANGED <<pc, sessionVars, sampleVars, probeVars, trackVars, frameVars, reqVars>>

\* the loop runs one iteration; the decoder call in it succeeds or fails
LoopIteration ==
    /\ pc = "loop"
    /\ Val(decode_loop).status = "running"
    /\ LoopGuard(Val(decode_loop))
    /\ \E ret \in BOOLEAN :
         LET l == Val(decode_loop)
         IN  decode_loop' =
               Some(CASE l.kind = "keyframe" -> KeyframeIteration(l, ret)
                      [] l.kind = "sequential" -> SequentialIteration(l, ret)
                      [] l.kind = "extract_frames" -> ExtractIteration(l, ret))
    /\ UNCHANGED <<pc, sessionVars, sampleVars, probeVars, trackVars, frameVars, reqVars>>

\* the guard at the head of the loop is false
LoopExits ==
    /\ pc = "loop"
    /\ Val(decode_loop).status = "running"
    /\ ~LoopGuard(Val(decode_loop))
    /\ decode_loop' = Some([Val(decode_loop) EXCEPT !.status = "exhausted"])
    /\ UNCHANGED <<pc, sessionVars, sampleVars, probeVars, trackVars, frameVars, reqVars>>

\* a break left the loop, or its guard was false: the strategy is over
LoopDone ==
    /\ pc = "loop"
    /\ Val(decode_loop).status \in {"enough", "aborted", "exhausted"}
    /\ pc' = "loop_done"
    /\ UNCHANGED <<decode_loop, sessionVars, sampleVars, probeVars, trackVars, frameVars,
                   reqVars>>

LoopNext == ExtractFirstRead \/ LoopIteration \/ LoopExits \/ LoopDone

SpecLoop == LoopInit /\ [][LoopNext]_vars

\* C27: the sequential strategy aborts only when the last 30 decoder calls
\* (reads of sampled frames and grabs of skipped ones) have all failed.
C27_AbortsOnlyAfter30InARow ==
    (pc = "loop_done" /\ Val(decode_loop).status = "aborted") =>
        Val(decode_loop).failed_run >= 30

-----------------------------------------------------------------------------
(* Live sessions: analyze_frame and reset_session on the session tables     *)

MaxCalls == 5

KNEE_DOWN == 60
KNEE_UP == 40

SessionIds == {"default", "other"}

\* y of the left and the right knee of a detected pose, in hundredths; the
\* pairs of equal heights put the average exactly on a threshold.
KneePairs ==
    {<<30, 30>>, <<40, 40>>, <<50, 50>>, <<60, 60>>, <<70, 70>>,
     <<30, 40>>, <<30, 70>>, <<60, 70>>}

\* d[k] = v on a Python dict
Put(d, k, v) == [x \in (DOMAIN d) \cup {k} |-> IF x = k THEN v ELSE d[x]]

\* The calls handled so far; the clock the timings are read from.
Calls == IF IsNone(last_call) THEN 0 ELSE Val(last_call).n

\* previous_states == "standing" and avg_knee_y > 0.6, with avg_knee_y =
\* (left + right) / 2
SquatBegins_inclusive(state, left, right) ==
    state = "standing" /\ left + right >= 2 * KNEE_DOWN

SquatBegins(state, left, right) ==
    state = "standing" /\ left + right > 2 * KNEE_DOWN

\* previous_states == "squatting" and avg_knee_y < 0.4
SquatEnds(state, left, right) ==
    state = "squatting" /\ left + right < 2 * KNEE_UP

\* The tables with session_id created if it is new (lines 341-345).
Opened(tables, session_id) ==
    IF session_id \in DOMAIN tables.states THEN tables
    ELSE [states |-> Put(tables.states, session_id, "standing"),
          counts |-> Put(tables.counts, session_id, 0),
          timings |-> Put(tables.timings, session_id, <<>>)]

\* detect_squat_state(session_id, avg_knee_y) on the tables, at time now
detect_squat_state(tables, session_id, left, right, now) ==
    LET state == tables.states[session_id]
    IN  IF SquatBegins(state, left, right)
        THEN [tables EXCEPT !.states[session_id] = "squatting",
                            !.timings[session_id] = Append(@, now)]
        ELSE IF SquatEnds(state, left, right)
        THEN [tables EXCEPT !.states[session_id] = "standing",
                            !.counts[session_id] = @ + 1]
        ELSE tables

Tables ==
    [states |-> previous_states, counts |-> squat_counts, timings |-> squat_timings]

\* The squatting-to-standing transitions of session_id since its last reset,
\* after a call that took the session from `before` to `after`.
Transitions(session_id, before, after, reset) ==
    IF reset \/ session_id \notin DOMAIN before THEN 0
    ELSE IF before[session_id] = "squatting" /\ after[session_id] = "standing"
    THEN transitions[session_id] + 1
    ELSE transitions[session_id]

SessionInit ==
    /\ pc = "serve"
    /\ previous_states = <<>>
    /\ squat_counts = <<>>
    /\ squat_timings = <<>>
    /\ transitions = <<>>
    /\ last_call = None
    /\ decode_loop = None
    /\ source_dims = None
    /\ frame_img = None
    /\ probe_output = None
    /\ probe_result = None
    /\ results = <<>>
    /\ current_best_knee_angle = 1800
    /\ current_worst_shoulder_diff = 0
    /\ last_scores = InitScores
    /\ global_min_knee_angle = 1800
    /\ final_scores = None
    /\ detection = None
    /\ frame_out = None
    /\ video = None
    /\ disk = {}
    /\ temp_path = None
    /\ original_duration = None
    /\ original_frame_count = None
    /\ cap_opened = FALSE
    /\ fps = 0
    /\ frame_count = 0
    /\ target_len = 0
    /\ frames_to_process = <<>>
    /\ response = None
    /\ fallback_decodes = 0

\* The tables and the record of the call are written.
Served(tables, call, reset) ==
    /\ previous_states' = tables.states
    /\ squat_counts' = tables.counts
    /\ squat_timings' = tables.timings
    /\ transitions' =
         [s \in DOMAIN tables.states |->
            IF s = call.session_id
            THEN Transitions(s, previous_states, tables.states, reset)
            ELSE transitions[s]]
    /\ last_call' = Some(call)
    /\ UNCHANGED <<pc, decode_loop, sampleVars, probeVars, trackVars, frameVars, reqVars>>

\* analyze_frame on a frame without a pose (lines 339-357): the session is
\* created if new, the feedback is returned
AnalyzeFrameNoPose ==
    /\ pc = "serve"
    /\ Calls < MaxCalls
    /\ \E session_id \in SessionIds :
         Served(Opened(Tables, session_id),
                [op |-> "analyze_frame", session_id |-> session_id, pose |-> FALSE,
                 left |-> 0, right |-> 0, n |-> Calls + 1],
                FALSE)

\* analyze_frame on a frame with a pose (lines 339-386)
AnalyzeFrame ==
    /\ pc = "serve"
    /\ Calls < MaxCalls
    /\ \E session_id \in SessionIds, knees \in KneePairs :
         Served(detect_squat_state(Opened(Tables, session_id), session_id,
                                   knees[1], knees[2], Calls + 1),
                [op |-> "analyze_frame", session_id |-> session_id, pose |-> TRUE,
                 left |-> knees[1], right |-> knees[2], n |-> Calls + 1],
                FALSE)

\* reset_session (lines 635-646)
ResetSession ==
    /\ pc = "serve"
    /\ Calls < MaxCalls
    /\ \E session_id \in SessionIds :
         Served([states |-> Put(previous_states, session_id, "standing"),
                 counts |-> Put(squat_counts, session_id, 0),
                 timings |-> Put(squat_timings, session_id, <<>>)],
                [op |-> "reset_session", session_id |-> session_id, pose |-> FALSE,
                 left |-> 0, right |-> 0, n |-> Calls + 1],
                TRUE)

SessionNext == AnalyzeFrameNoPose \/ AnalyzeFrame \/ ResetSession

SpecSession == SessionInit /\ [][SessionNext]_vars

\* The relations of C30 between the tables of a state.
C30_Counts ==
    \A s \in DOMAIN previous_states :
        /\ squat_counts[s] = transitions[s]
        /\ Len(squat_timings[s]) =
             squat_counts[s] + (IF previous_states[s] = "squatting" THEN 1 ELSE 0)

\* What a call may do to the session s that existed before it.
C30_Step(s) ==
    LET call == Val(last_call')
        mine == call.session_id = s
        avg2 == call.left + call.right
    IN  /\ (previous_states[s] = "standing" /\ previous_states'[s] = "squatting") =>
              (mine /\ call.op = "analyze_frame" /\ call.pose /\ avg2 > 120)
        /\ (previous_states[s] = "squatting" /\ previous_states'[s] = "standing") =>
              (mine /\ \/ call.op = "reset_session"
                       \/ (call.op = "analyze_frame" /\ call.pose /\ avg2 < 80))
        /\ (~mine \/ (call.op = "analyze_frame" /\ ~call.pose)) =>
              /\ previous_states'[s] = previous_states[s]
              /\ squat_counts'[s] = squat_counts[s]
              /\ squat_timings'[s] = squat_timings[s]

\* C30: in every session the squat count is the number of squatting-to-
\* standing transitions since the last reset and the number of timings is the
\* count, plus one while squatting; a session turns to squatting only from
\* standing on a frame with average knee height > 0.6 and back to standing
\* only on one with average knee height < 0.4 (or on its reset); frames
\* without a pose and calls on other sessions leave it unchanged.
C30_SessionCounts ==
    /\ []C30_Counts
    /\ [][\A s \in DOMAIN previous_states :
             s \in DOMAIN previous_states' /\ C30_Step(s)]_vars

\* C30 witness: after one completed squat the session is squatting again,
\* with two timings, while another session exists.
C30_Witness ==
    /\ "default" \in DOMAIN previous_states
    /\ "other" \in DOMAIN previous_states
    /\ previous_states["default"] = "squatting"
    /\ squat_counts["default"] = 1
    /\ Len(squat_timings["default"]) = 2

-----------------------------------------------------------------------------
(* The /analyze request: inputs                                             *)

\* What the decoding backends report for the uploaded file and how far they
\* decode it.  fps is in hundredths.  A sequential read succeeds on the first
\* `avail` frames and fails from there on; a read that follows a seek to
\* frame i succeeds when i < seek_avail.
RawFps == {-100, 0, 3000, 100000}
RawFrameCounts == {-1, 2, 150, 2000}
RawDurations == {0, 5000}
Avail == {0, 2, 8, 150}
SeekAvail == {0, 2000}

Videos ==
    {[kind |-> "video", fps |-> f, frame_count |-> n, duration_msec |-> d,
      avail |-> a, seek_avail |-> sa] :
        f \in RawFps, n \in RawFrameCounts, d \in RawDurations,
        a \in Avail, sa \in SeekAvail}

\* A file no backend opens: a still image, or bytes nothing can read.  An
\* unopened capture reports 0 for every property and decodes nothing.
NoVideo(k) == [kind |-> k, fps |-> 0, frame_count |-> 0, duration_msec |-> 0,
               avail |-> 0, seek_avail |-> 0]

Uploads == Videos \cup {NoVideo("image"), NoVideo("garbage")}

\* What get_video_properties returns: (duration, nb_frames), or (None, None)
\* when ffprobe fails.  Durations are exact rationals of seconds.
ProbeResults ==
    {[duration |-> None, nb_frames |-> None],
     [duration |-> Some(Rat(5, 1)), nb_frames |-> Some(150)],
     [duration |-> Some(Rat(33, 1000)), nb_frames |-> Some(2)]}

\* file.content_length in bytes.
ContentLengths == {0, 2097152}

\* Numbers of frame images the external ffmpeg run leaves in the scratch
\* directory, and of frames the imageio reader yields (None: it raises).
FfmpegYields == {0, 2}
ImageioYields == {None, Some(0), Some(2)}

\* Pose oracle outcomes for one frame: no pose, or landmarks with both legs
\* usable, only the right leg, only the left leg, no leg.
LmBoth      == Landmarks(Pt(50, 20, 90), LegParallel, Pt(56, 20, 90), LegStanding)
LmRightOnly == Landmarks(Pt(50, 20, 90), LegHalf, Pt(50, 20, 90), LegHidden)
LmLeftOnly  == Landmarks(Pt(50, 20, 90), LegHidden, Pt(50, 20, 90), LegHalf)
LmNoLeg     == Landmarks(Pt(50, 20, 90), LegHidden, Pt(50, 20, 90), LegHidden)

PoseOutcomes == {None, Some(LmBoth), Some(LmRightOnly), Some(LmLeftOnly), Some(LmNoLeg)}

\* The oracle's outcomes are enumerated for the first PoseLen frames of the
\* list and repeat with that period, so that a list can end in a frame
\* without a pose after several frames with one.
PoseLen == 2
PosePatterns == [1 .. PoseLen -> PoseOutcomes]
PoseAt(poses, k) == poses[((k - 1) % PoseLen) + 1]

-----------------------------------------------------------------------------
(* The /analyze request: metadata                                           *)

FPS_MAX == 120
FPS_SENTINEL == 1000
FPS_DEFAULT == 30
FRAME_COUNT_MIN == 10
FRAME_COUNT_MAX == 1500

\* cap.get(prop): an unopened capture returns 0.
CapGet(v, opened) == IF opened THEN v ELSE NoVideo("none")

\* "Validate FPS" (lines 832-845): fps is int(cap.get(CAP_PROP_FPS)), a whole
\* number; the result is a whole number of frames per second.
ValidFps(raw_fps, raw_count, duration_msec) ==
    LET f == TruncDiv(raw_fps, 100)
    IN  IF f <= 0 \/ f > FPS_MAX \/ f = FPS_SENTINEL
        THEN IF duration_msec > 0 /\ raw_count > 0 /\ raw_count < 100000
             THEN IF raw_count * 1000 <= FPS_MAX * duration_msec
                  THEN RoundHalfEven(raw_count * 1000, duration_msec)
                  ELSE FPS_DEFAULT
             ELSE FPS_DEFAULT
        ELSE f

\* "Validate Frame Count" and the clamp (lines 847-866); f is the validated
\* whole fps, content_length the upload's size in bytes.
ValidFrameCount(raw_count, duration_msec, f, content_length) ==
    LET expected == IF duration_msec > 0 /\ f > 0
                    THEN (duration_msec * f) \div 1000 ELSE 0
        invalid == raw_count < 0 \/ (duration_msec > 500 /\ raw_count <= 1)
        mismatch == expected > 0 /\ 2 * Abs(raw_count - expected) > expected
        estimated == IF 8 * content_length <= 1048576 THEN f
                     ELSE (8 * content_length * f) \div 1048576
        n == IF invalid \/ mismatch
             THEN (IF expected > 0 THEN expected ELSE estimated)
             ELSE raw_count
    IN  MaxOf(FRAME_COUNT_MIN, MinOf(n, FRAME_COUNT_MAX))

\* original_duration and original_frame_count after the ffprobe call and its
\* OpenCV / default fallbacks (lines 734-758).
OriginalProperties(pr, v) ==
    LET bad(d, n) == IsNone(d) \/ Val(d).n <= 0 \/ IsNone(n) \/ Val(n) <= 0
        d0 == pr.duration
        n0 == pr.nb_frames
        opens == v.kind = "video"
        n1 == IF bad(d0, n0) /\ opens /\ (IsNone(n0) \/ Val(n0) <= 0) /\ v.frame_count > 0
              THEN Some(v.frame_count) ELSE n0
        d1 == IF bad(d0, n0) /\ opens /\ IsNone(d0) /\ v.fps > 0
                 /\ ~IsNone(n1) /\ Val(n1) > 0
              THEN Some(Rat(Val(n1) * 100, v.fps)) ELSE d0
    IN  IF bad(d1, n1)
        THEN [duration |-> Some(Rat(10, 1)), frame_count |-> Some(300)]
        ELSE [duration |-> d1, frame_count |-> n1]

-----------------------------------------------------------------------------
(* The /analyze request: frame sampling                                     *)

\* The first n elements of a sequence.
Take(sq, n) == SubSeq(sq, 1, MinOf(n, Len(sq)))

\* range(0, stop, step) as a sequence.
PyRange(stop, step) ==
    IF stop <= 0 THEN <<>>
    ELSE [k \in 1 .. ((stop + step - 1) \div step) |-> (k - 1) * step]

\* Python a // b for b > 0 or a = b.
FloorDiv(a, b) == IF a = b THEN 1 ELSE a \div b

\* Keyframe-interval seek (lines 913-927): a seek and a read per interval,
\* stopping at max_keyframes frames.
KeyframeFrames(v, count, n_target) ==
    LET max_keyframes == MinOf(180, n_target)
        keyframe_interval == MaxOf(1, FloorDiv(count, max_keyframes))
        got == SelectSeq(PyRange(count, keyframe_interval),
                         LAMBDA i : i < v.seek_avail)
    IN  Take(got, max_keyframes)

\* Sequential decode with sampling (lines 945-980).  With a decoder that
\* fails from frame v.avail on no read succeeds after the first failure, so
\* the run of failures only decides where the loop stops.
SequentialFrames(v, count, n_target) ==
    LET sample_interval == MaxOf(1, FloorDiv(count, MinOf(200, n_target)))
        got == SelectSeq(PyRange(count, sample_interval),
                         LAMBDA i : i < v.avail)
    IN  Take(got, MinOf(200, n_target))

\* Frames loaded from the n_files images of the external ffmpeg run (lines
\* 994-1011); count = 0 raises ZeroDivisionError inside the try block.
FfmpegFrames(count, n_files) ==
    LET extract_count == MinOf(50, count)
        extraction_interval == MaxOf(1, FloorDiv(count, extract_count))
    IN  IF count = 0 THEN <<>>
        ELSE [k \in 1 .. n_files |-> (k - 1) * extraction_interval]

\* Frames of the imageio reader (lines 1023-1038); None: the reader raised.
ImageioFrames(count, n_target, yield) ==
    IF IsNone(yield) THEN <<>>
    ELSE [k \in 1 .. MinOf(Val(yield), MinOf(MaxOf(count, 0), n_target)) |-> k - 1]

\* extract_frames(cap, 1, frame_count, is_portrait_video)
extract_frames(v, count) ==
    [k \in 1 .. MinOf(v.avail, MaxOf(count, 0)) |-> k - 1]

\* coverage < 0.8
LowCoverage_inclusive(frames, n_target) == 10 * Len(frames) <= 8 * MaxOf(1, n_target)

LowCoverage(frames, n_target) == 10 * Len(frames) < 8 * MaxOf(1, n_target)

SortByIndex(frames) == SortSeq(frames, LAMBDA a, b : a < b)

-----------------------------------------------------------------------------
(* The /analyze request: pose processing and timestamps                     *)

\* process_frame raises on a frame: the unbound local of line 1199, or the
\* division frame_idx / fps of line 1222 with fps = 0.
FrameRaisesAt(pose, f) ==
    ~IsNone(pose) /\ (DepthReadsUnbound(Val(pose)) \/ f = 0)

\* The record process_frame returns for frame index idx.
FrameRecord(idx, m, f) ==
    [frame |-> idx, timestamp |-> Rat(idx * 100, f), measurements |-> m]

\* Whether process_frame raises on some frame of the list.  Frames past
\* PoseLen repeat the outcome of frame PoseLen.
SomeFrameRaises(frames, poses, f) ==
    \E k \in 1 .. MinOf(Len(frames), PoseLen) : FrameRaisesAt(poses[k], f)

\* The loop of lines 1243-1246: the records of the frames with a pose.
ProcessAll(frames, poses, f) ==
    LET posed == SelectSeq([k \in 1 .. Len(frames) |-> k],
                           LAMBDA k : ~IsNone(PoseAt(poses, k)))
        meas == [o \in Range(poses) \ {None} |-> Measurements(Val(o))]
    IN  [j \in 1 .. Len(posed) |->
            FrameRecord(frames[posed[j]], meas[PoseAt(poses, posed[j])], f)]

SortByFrame(res) == SortSeq(res, LAMBDA a, b : a.frame < b.frame)
SortByTimestamp(res) == SortSeq(res, LAMBDA a, b : RatLess(a.timestamp, b.timestamp))

\* "Timestamp scaling" (lines 1272-1281).
NeedsScaling_nolen(res, dur) ==
    /\ ~IsNone(dur) /\ Val(dur).n > 0
    /\ Len(res) > 0
    /\ res[Len(res)].timestamp.n > 0
    /\ LET last_ts == res[Len(res)].timestamp
           d == Val(dur)
       IN  100 * Abs(last_ts.n * d.d - d.n * last_ts.d) >= d.n * last_ts.d

NeedsScaling(res, dur) ==
    /\ ~IsNone(dur) /\ Val(dur).n > 0
    /\ Len(res) > 1
    /\ res[Len(res)].timestamp.n > 0
    /\ LET last_ts == res[Len(res)].timestamp
           d == Val(dur)
       IN  100 * Abs(last_ts.n * d.d - d.n * last_ts.d) >= d.n * last_ts.d

ScaleTimestamps(res, dur) ==
    IF NeedsScaling(res, dur)
    THEN LET scale_factor == RatDiv(Val(dur), res[Len(res)].timestamp)
         IN  [i \in 1 .. Len(res) |->
                [res[i] EXCEPT !.timestamp = RatMul(@, scale_factor)]]
    ELSE res

-----------------------------------------------------------------------------
(* The /analyze request: the handler                                        *)

ReqInit ==
    /\ pc = "save"
    /\ video \in Uploads
    /\ disk = {}
    /\ temp_path = None
    /\ original_duration = None
    /\ original_frame_count = None
    /\ cap_opened = FALSE
    /\ fps = 0
    /\ frame_count = 0
    /\ target_len = 0
    /\ frames_to_process = <<>>
    /\ response = None
    /\ fallback_decodes = 0
    /\ results = <<>>
    /\ current_best_knee_angle = 1800
    /\ current_worst_shoulder_diff = 0
    /\ last_scores = InitScores
    /\ global_min_knee_angle = 1800
    /\ final_scores = None
    /\ detection = None
    /\ frame_out = None
    /\ probe_output = None
    /\ probe_result = None
    /\ source_dims = None
    /\ frame_img = None
    /\ decode_loop = <<>>
    /\ previous_states = <<>>
    /\ squat_counts = <<>>
    /\ squat_timings = <<>>
    /\ transitions = <<>>
    /\ last_call = <<>>

TranscodedExts == {".webm", ".mkv", ".avi"}
AllowedExts == {".mp4"} \cup TranscodedExts

\* file.save(temp_path) (lines 703-714)
SaveUpload ==
    /\ pc = "save"
    /\ disk' = disk \cup {"upload"}
    /\ temp_path' = Some("upload")
    /\ \E orig_ext \in AllowedExts :
         pc' = IF orig_ext \in TranscodedExts THEN "transcode" ELSE "probe"
    /\ UNCHANGED <<Elsewhere, sampleVars, probeVars, trackVars, frameVars, fallback_decodes, video, original_duration, original_frame_count,
                   cap_opened, fps, frame_count, target_len, frames_to_process, response>>

\* ffmpeg wrote the constant-fps copy; the upload is removed (lines 723-728)
TranscodeOk ==
    /\ pc = "transcode"
    /\ disk' = (disk \cup {"transcoded"}) \ {Val(temp_path)}
    /\ temp_path' = Some("transcoded")
    /\ pc' = "probe"
    /\ UNCHANGED <<Elsewhere, sampleVars, probeVars, trackVars, frameVars, fallback_decodes, video, original_duration, original_frame_count,
                   cap_opened, fps, frame_count, target_len, frames_to_process, response>>

\* ffmpeg failed (lines 729-730); it may have written part of its output
TranscodeFails ==
    /\ pc = "transcode"
    /\ \E partial \in BOOLEAN :
         disk' = IF partial THEN disk \cup {"transcoded"} ELSE disk
    /\ pc' = "probe"
    /\ UNCHANGED <<Elsewhere, sampleVars, probeVars, trackVars, frameVars, fallback_decodes, video, temp_path, original_duration,
                   original_frame_count, cap_opened, fps, frame_count, target_len,
                   frames_to_process, response>>

\* get_video_properties and its fallbacks (lines 734-758)
Probe ==
    /\ pc = "probe"
    /\ \E pr \in ProbeResults :
         LET op == OriginalProperties(pr, video)
         IN  /\ original_duration' = op.duration
             /\ original_frame_count' = op.frame_count
    /\ pc' = "open"
    /\ UNCHANGED <<Elsewhere, sampleVars, probeVars, trackVars, frameVars, fallback_decodes, video, disk, temp_path, cap_opened, fps,
                   frame_count, target_len, frames_to_process, response>>

\* a backend opens the file (lines 771-776, 806-807)
OpenVideo ==
    /\ pc = "open"
    /\ video.kind = "video"
    /\ cap_opened' = TRUE
    /\ pc' = "meta"
    /\ UNCHANGED <<Elsewhere, sampleVars, probeVars, trackVars, frameVars, fallback_decodes, video, disk, temp_path, original_duration,
                   original_frame_count, fps, frame_count, target_len,
                   frames_to_process, response>>

\* no backend opens it, PIL does (lines 780-797): one frame, index 0
OpenAsImage ==
    /\ pc = "open"
    /\ video.kind = "image"
    /\ frames_to_process' = <<0>>
    /\ pc' = "meta"
    /\ UNCHANGED <<Elsewhere, sampleVars, probeVars, trackVars, frameVars, fallback_decodes, video, disk, temp_path, original_duration,
                   original_frame_count, cap_opened, fps, frame_count, target_len,
                   response>>

\* nothing opens it (lines 800-802): the handler returns from inside the try
OpenFails ==
    /\ pc = "open"
    /\ video.kind = "garbage"
    /\ response' = Some([status |-> 400])
    /\ pc' = "done"
    /\ UNCHANGED <<Elsewhere, sampleVars, probeVars, trackVars, frameVars, fallback_decodes, video, disk, temp_path, original_duration,
                   original_frame_count, cap_opened, fps, frame_count, target_len,
                   frames_to_process>>

\* lines 810-881: goto_processing is reset, the metadata is validated and
\* the frame list is emptied for the extraction
ValidateMetadata ==
    /\ pc = "meta"
    /\ \E content_length \in ContentLengths :
         LET cap == CapGet(video, cap_opened)
             f == ValidFps(cap.fps, cap.frame_count, cap.duration_msec)
             n == ValidFrameCount(cap.frame_count, cap.duration_msec, f, content_length)
         IN  /\ fps' = f * 100
             /\ frame_count' = n
             /\ target_len' = n
    /\ frames_to_process' = <<>>
    /\ pc' = "keyframe"
    /\ UNCHANGED <<Elsewhere, sampleVars, probeVars, trackVars, frameVars, fallback_decodes, video, disk, temp_path, original_duration,
                   original_frame_count, cap_opened, response>>

\* first method (lines 900-932), tried for frame_count >= 120: the capture
\* is reopened and fps and frame_count are read from it again
Keyframe ==
    /\ pc = "keyframe"
    /\ IF frame_count >= 120
       THEN LET cap == CapGet(video, cap_opened)
                keyframe_frames == KeyframeFrames(cap, cap.frame_count, target_len)
            IN  /\ fps' = cap.fps
                /\ frame_count' = cap.frame_count
                /\ frames_to_process' =
                     IF Len(keyframe_frames) >= MinOf(60, target_len \div 2)
                     THEN keyframe_frames ELSE frames_to_process
       ELSE UNCHANGED <<fps, frame_count, frames_to_process>>
    /\ pc' = "sequential"
    /\ UNCHANGED <<Elsewhere, sampleVars, probeVars, trackVars, frameVars, fallback_decodes, video, disk, temp_path, original_duration,
                   original_frame_count, cap_opened, target_len, response>>

\* second method (lines 935-985)
Sequential ==
    /\ pc = "sequential"
    /\ frames_to_process' =
         IF Len(frames_to_process) < MinOf(60, target_len \div 2)
         THEN LET sequential_frames ==
                      SequentialFrames(CapGet(video, cap_opened), frame_count, target_len)
              IN  IF Len(sequential_frames) > Len(frames_to_process)
                  THEN sequential_frames ELSE frames_to_process
         ELSE frames_to_process
    /\ pc' = "ffmpeg"
    /\ UNCHANGED <<Elsewhere, sampleVars, probeVars, trackVars, frameVars, fallback_decodes, video, disk, temp_path, original_duration,
                   original_frame_count, cap_opened, fps, frame_count, target_len,
                   response>>

\* third method (lines 988-1018)
FfmpegExtract ==
    /\ pc = "ffmpeg"
    /\ IF Len(frames_to_process) < MinOf(20, target_len \div 4)
       THEN \E n_files \in FfmpegYields :
              LET ffmpeg_frames == FfmpegFrames(frame_count, n_files)
              IN  frames_to_process' =
                    IF Len(ffmpeg_frames) > Len(frames_to_process)
                    THEN ffmpeg_frames ELSE frames_to_process
       ELSE UNCHANGED frames_to_process
    /\ pc' = "imageio"
    /\ UNCHANGED <<Elsewhere, sampleVars, probeVars, trackVars, frameVars, fallback_decodes, video, disk, temp_path, original_duration,
                   original_frame_count, cap_opened, fps, frame_count, target_len,
                   response>>

\* fourth method (lines 1021-1044)
ImageioExtract ==
    /\ pc = "imageio"
    /\ IF Len(frames_to_process) < MinOf(10, target_len \div 4)
       THEN \E yield \in ImageioYields :
              LET imgio_frames == ImageioFrames(frame_count, target_len, yield)
              IN  frames_to_process' =
                    IF Len(imgio_frames) > Len(frames_to_process)
                    THEN imgio_frames ELSE frames_to_process
       ELSE UNCHANGED frames_to_process
    /\ pc' = "fallback"
    /\ UNCHANGED <<Elsewhere, sampleVars, probeVars, trackVars, frameVars, fallback_decodes, video, disk, temp_path, original_duration,
                   original_frame_count, cap_opened, fps, frame_count, target_len,
                   response>>

\* lines 1053-1066: the full sequential read when coverage is below 80%,
\* then the sort by index
Fallback ==
    /\ pc = "fallback"
    /\ frames_to_process' =
         SortByIndex(IF LowCoverage(frames_to_process, target_len)
                     THEN extract_frames(CapGet(video, cap_opened), frame_count)
                     ELSE frames_to_process)
    /\ fallback_decodes' =
         IF LowCoverage(frames_to_process, target_len)
         THEN fallback_decodes + 1 ELSE fallback_decodes
    /\ pc' = "process"
    /\ UNCHANGED <<Elsewhere, sampleVars, probeVars, trackVars, frameVars, video, disk, temp_path, original_duration,
                   original_frame_count, cap_opened, fps, frame_count, target_len,
                   response>>

\* lines 1242-1254: every frame is processed
ProcessFrames ==
    /\ pc = "process"
    /\ \E poses \in PosePatterns :
         /\ ~SomeFrameRaises(frames_to_process, poses, fps)
         /\ results' = ProcessAll(frames_to_process, poses, fps)
    /\ pc' = "finish"
    /\ UNCHANGED <<Elsewhere, sampleVars, probeVars, current_best_knee_angle, current_worst_shoulder_diff, last_scores,
                   global_min_knee_angle, final_scores, frameVars, reqVars>>

\* process_frame raises on some frame: the except block (lines 1521-1528)
\* removes temp_path and answers 500
ProcessFramesRaises ==
    /\ pc = "process"
    /\ ~ \A poses \in PosePatterns : ~SomeFrameRaises(frames_to_process, poses, fps)
    /\ disk' = disk \ {Val(temp_path)}
    /\ response' = Some([status |-> 500])
    /\ pc' = "done"
    /\ UNCHANGED <<Elsewhere, sampleVars, probeVars, trackVars, frameVars, fallback_decodes, video, temp_path, original_duration,
                   original_frame_count, cap_opened, fps, frame_count, target_len,
                   frames_to_process>>

\* lines 1256-1519: temp_path is removed, the results are sorted, their
\* timestamps scaled, and the result is returned.  The scoring pass in
\* between (lines 1289-1500) raises on no input and writes only the scores;
\* SpecTrack models it frame by frame.
Finish ==
    /\ pc = "finish"
    /\ disk' = disk \ {Val(temp_path)}
    /\ results' = SortByTimestamp(ScaleTimestamps(SortByFrame(results), original_duration))
    /\ response' = Some([status |-> 200])
    /\ pc' = "done"
    /\ UNCHANGED <<Elsewhere, sampleVars, probeVars, current_best_knee_angle, current_worst_shoulder_diff, last_scores,
                   global_min_knee_angle, final_scores, frameVars, fallback_decodes, video,
                   temp_path,
                   original_duration, original_frame_count, cap_opened, fps,
                   frame_count, target_len, frames_to_process>>

Next ==
    \/ SaveUpload \/ TranscodeOk \/ TranscodeFails \/ Probe
    \/ OpenVideo \/ OpenAsImage \/ OpenFails
    \/ ValidateMetadata \/ Keyframe \/ Sequential \/ FfmpegExtract \/ ImageioExtract
    \/ Fallback \/ ProcessFrames \/ ProcessFramesRaises \/ Finish

Spec == ReqInit /\ [][Next]_vars

-----------------------------------------------------------------------------
(* Claims about the /analyze request (checked under Spec)                   *)

Done == pc = "done" /\ ~IsNone(response)
Succeeded == Done /\ Val(response).status = 200

\* C2: a request whose strategy cascade and full sequential fallback obtained
\* zero frames ends with an error, never with a success result.
C2_ZeroFramesIsError ==
    (Done /\ Len(frames_to_process) = 0) => Val(response).status # 200

\* C3: a request that extracted at least one frame (and divides by a non-zero
\* fps) ends with a success result, whatever the pose oracle and the joint
\* gate gave for each frame.
C3_PartialDataNeverFails ==
    (Done /\ Len(frames_to_process) >= 1 /\ fps > 0) => Val(response).status = 200

\* C4: when a request has ended, neither the saved upload nor the transcoded
\* copy is on disk.
C4_NoScratchFileLeft ==
    Done => disk = {}

\* The raw timestamp frame / fps of a result record, and the result with the
\* highest frame index.
C6_Raw(r) == Rat(r.frame * 100, fps)
C6_Last ==
    results[CHOOSE i \in 1 .. Len(results) :
                \A j \in 1 .. Len(results) : results[j].frame <= results[i].frame]
C6_Differs(last_raw, d) ==
    100 * Abs(last_raw.n * d.d - d.n * last_raw.d) >= d.n * last_raw.d
C6_AllScaled(last, d) ==
    LET last_raw == C6_Raw(last)
    IN  /\ \A i \in 1 .. Len(results) :
             RatMul(results[i].timestamp, last_raw) = RatMul(C6_Raw(results[i]), d)
        /\ last.timestamp = d
C6_AllUnchanged ==
    \A i \in 1 .. Len(results) : results[i].timestamp = C6_Raw(results[i])

\* C6 (as stated): whenever the last frame's timestamp differs from the true
\* duration by at least 1% of the true duration, every timestamp of the
\* result is that frame's index / fps multiplied by true_duration /
\* last_timestamp; otherwise every timestamp is index / fps.
C6_ScaledWheneverOff ==
    (Succeeded /\ Len(results) >= 1) =>
        LET last == C6_Last
            last_raw == C6_Raw(last)
            d == Val(original_duration)
        IN  last_raw.n > 0 =>
              IF C6_Differs(last_raw, d) THEN C6_AllScaled(last, d) ELSE C6_AllUnchanged

\* C6 (amended): the timestamps are scaled by true_duration / last_timestamp
\* exactly when the result has at least two frames, the last timestamp is
\* positive and it differs from the true duration by at least 1%; in every
\* other case they are left at index / fps.
C6_ScaledWhenOffAndTwoFrames ==
    (Succeeded /\ Len(results) >= 1) =>
        LET last == C6_Last
            last_raw == C6_Raw(last)
            d == Val(original_duration)
        IN  IF Len(results) >= 2 /\ last_raw.n > 0 /\ C6_Differs(last_raw, d)
            THEN C6_AllScaled(last, d) ELSE C6_AllUnchanged

C6_Witness ==
    /\ Succeeded
    /\ Len(results) = 2
    /\ results[2].frame = 1
    /\ results[2].timestamp = Val(original_duration)
    /\ results[2].timestamp # C6_Raw(results[2])

\* The duration is the arbitrary default of lines 756-757.  No probe result
\* and no decoder metadata of the inputs gives 10 s with 300 frames.
C19_Fabricated ==
    /\ original_duration = Some(Rat(10, 1))
    /\ original_frame_count = Some(300)

\* C19: when the duration was fabricated because neither the probe nor the
\* decoder supplied one, the timestamps of the result are not rescaled: every
\* timestamp is the frame's index / fps.
C19_FabricatedDurationNeverScales ==
    (Succeeded /\ C19_Fabricated) => C6_AllUnchanged

\* frames obtained / frames targeted < 0.8, on the values before the fallback
C20_Below80 == 10 * Len(frames_to_process) < 8 * MaxOf(1, target_len)

\* C20: the step after the strategy cascade runs the full sequential decode
\* once if frames obtained / frames targeted is below 0.8 and does not run it
\* otherwise; no other step runs it, so a request runs it at most once.
C20_FallbackOnceIffLowCoverage ==
    [][/\ pc = "fallback" =>
            fallback_decodes' = (IF C20_Below80 THEN 1 ELSE 0)
       /\ pc # "fallback" => fallback_decodes' = fallback_decodes
       /\ fallback_decodes' <= 1]_vars

\* C20 witness: the cascade obtained fewer than 80% of the target, and the
\* fallback has decoded the video and obtained frames.
C20_Witness ==
    /\ pc = "process"
    /\ fallback_decodes = 1
    /\ Len(frames_to_process) >= 1

\* C21: when no decoder backend opens the upload but it opens as a still
\* image, the frames handed to the pose analysis are exactly that one image
\* as frame 0, and the request ends with a success result.
C21_StillImageIsSingleFrame ==
    /\ (pc \in {"process", "finish"} /\ video.kind = "image") => frames_to_process = <<0>>
    /\ (Done /\ video.kind = "image") =>
          (Val(response).status = 200 /\ frames_to_process = <<0>>)

\* C23: the frames of a success result are strictly increasing in frame
\* index and non-decreasing in timestamp.
C23_FramesOrdered ==
    Succeeded =>
        \A i \in 1 .. Len(results) - 1 :
            /\ results[i].frame < results[i + 1].frame
            /\ ~RatLess(results[i + 1].timestamp, results[i].timestamp)

\* The timestamp of the last frame the sampler obtained: highest sampled
\* index / fps.
C24_LastSampled ==
    Rat(frames_to_process[Len(frames_to_process)] * 100, fps)

\* C24: the trigger and the scale factor of the timestamp scaling come from
\* the timestamp of the last sampled frame: with at least two frames in the
\* result and that timestamp positive, the timestamps are multiplied by
\* true_duration / (last sampled timestamp) if it is 1% or more off the true
\* duration and left unchanged otherwise, whichever frames have a pose.
C24_ScalingFromLastSampled ==
    (Succeeded /\ Len(results) >= 2 /\ fps > 0) =>
        LET last == C24_LastSampled
            d == Val(original_duration)
        IN  last.n > 0 =>
              IF C6_Differs(last, d)
              THEN \A i \in 1 .. Len(results) :
                     RatMul(results[i].timestamp, last) = RatMul(C6_Raw(results[i]), d)
              ELSE C6_AllUnchanged

\* C25: the full sequential fallback never leaves fewer frames for the pose
\* analysis than the strategy cascade had obtained.
C25_FallbackNeverReduces ==
    [][pc = "fallback" => Len(frames_to_process') >= Len(frames_to_process)]_vars

\* C9: the frame count that bounds the strategies that follow the metadata
\* validation and the full sequential fallback lies in [10, 1500], and the
\* frame list never holds more than 1500 frames.
C9_FrameCountBound ==
    (pc \in {"sequential", "ffmpeg", "imageio", "fallback", "process"}) =>
        /\ FRAME_COUNT_MIN <= frame_count
        /\ frame_count <= FRAME_COUNT_MAX
        /\ Len(frames_to_process) <= FRAME_COUNT_MAX

\* C10: when the frames are processed, the fps that divides each frame index
\* is greater than 0 and at most 120.
C10_FpsDivisorValid ==
    pc = "process" => (fps > 0 /\ fps <= FPS_MAX * 100)

-----------------------------------------------------------------------------
(* Claims about the tracker (checked under SpecTrack)                       *)

\* C1: within the phase, for every pair of frames i < j the knee_depth score
\* given to frame j is at least the knee_depth score given to frame i.
C1_KneeDepthNonDecreasing ==
    \A i, j \in DOMAIN results :
        i < j => results[j].scores.knee_depth >= results[i].scores.knee_depth

\* C7: the final kneeDepthScore equals the maximum knee_depth score given to
\* any frame of any phase.
C7_FinalDepthIsMaxFrameDepth ==
    (pc = "done" /\ results # <<>>) =>
        Val(final_scores).kneeDepthScore =
            SetMax({results[i].scores.knee_depth : i \in DOMAIN results})

\* C8 (as claimed): within the phase, for every pair of frames i < j the
\* shoulder_align score given to frame j is at least that given to frame i.
C8_ShoulderNonDecreasing ==
    \A i, j \in DOMAIN results :
        i < j => results[j].scores.shoulder_align >= results[i].scores.shoulder_align

\* C8 (amended): within the phase, for every pair of frames i < j the
\* shoulder_align score given to frame j is at most that given to frame i:
\* the score follows the worst alignment seen so far and only falls.
C8_ShoulderNonIncreasing ==
    \A i, j \in DOMAIN results :
        i < j => results[j].scores.shoulder_align <= results[i].scores.shoulder_align

\* C8 witness: a later frame with a smaller diff than the worst one seen, and
\* a frame without a diff after a frame whose score had fallen.
C8_Witness ==
    /\ Len(results) = 3
    /\ results[1].measurements.shoulderMidfootDiff = Some(-50)
    /\ results[2].measurements.shoulderMidfootDiff = Some(10)
    /\ results[3].measurements.shoulderMidfootDiff = None
    /\ results[1].scores.shoulder_align = 625
    /\ results[3].scores.shoulder_align = 625

\* The three scores of a frame record as a tuple.
ScoreTuple(sc) == <<sc.knee_depth, sc.shoulder_align, sc.overall>>
InScoreRange(x) == 0 <= x /\ x <= 1000

\* C11: every score of a result lies in [0, 100]: knee_depth, shoulder_align
\* and overall of each frame, and the final kneeDepthScore,
\* shoulderAlignmentScore and overall.
C11_ScoresInRange ==
    /\ \A i \in DOMAIN results :
         \A x \in Range(ScoreTuple(results[i].scores)) : InScoreRange(x)
    /\ ~IsNone(final_scores) =>
         /\ InScoreRange(Val(final_scores).kneeDepthScore)
         /\ InScoreRange(Val(final_scores).shoulderAlignmentScore)
         /\ InScoreRange(Val(final_scores).overall)

\* C11 witness: a finished result whose frame scores reached 100 and 0 and
\* whose final shoulder score went through the derivation from the raw
\* diffs (the frame maximum was 0.0 and a diff exists).
C11_Witness ==
    /\ pc = "done"
    /\ Len(results) = MaxFrames
    /\ \A i \in DOMAIN results : results[i].scores.shoulder_align = 0
    /\ \E i \in DOMAIN results : results[i].scores.knee_depth = 1000
    /\ \E i \in DOMAIN results : results[i].measurements.shoulderMidfootDiff = Some(10)
    /\ Val(final_scores).shoulderAlignmentScore = 0

\* C12: every overall score is 0.4 x depth + 0.3 x shoulder alignment of the
\* same record rounded to one decimal, for each frame and for the final
\* scores, and none exceeds 70.
C12_OverallIsWeightedSum ==
    /\ \A i \in DOMAIN results :
         LET sc == results[i].scores
         IN  /\ sc.overall = Round1(4 * sc.knee_depth + 3 * sc.shoulder_align)
             /\ sc.overall <= 700
    /\ ~IsNone(final_scores) =>
         LET fs == Val(final_scores)
         IN  /\ fs.overall = Round1(4 * fs.kneeDepthScore + 3 * fs.shoulderAlignmentScore)
             /\ fs.overall <= 700

\* C12 witness: a frame and a final result with the largest overall, 70, and
\* a frame whose overall needed the rounding (37.5 from 0 and 62.5 gives
\* 18.75, rounded to 18.8).
C12_Witness ==
    /\ pc = "done"
    /\ \E i \in DOMAIN results : results[i].scores.overall = 700
    /\ \E i \in DOMAIN results : ScoreTuple(results[i].scores) = <<0, 625, 188>>
    /\ Val(final_scores).overall > 0

\* C13: a frame whose knee angle and shoulder-midfoot diff are both null has
\* the score tuple of the frame before it, and (0, 100, 0) when it is the
\* first frame.
C13_NullFrameInherits ==
    \A i \in DOMAIN results :
        (IsNone(results[i].measurements.kneeAngle)
            /\ IsNone(results[i].measurements.shoulderMidfootDiff)) =>
        ScoreTuple(results[i].scores) =
            IF i = 1 THEN <<0, 1000, 0>> ELSE ScoreTuple(results[i - 1].scores)

\* The smallest of 180 and the non-null knee angles of frames 1 .. i.
C14_MinAngle(i) ==
    SetMin({1800} \cup {Val(results[k].measurements.kneeAngle) :
                k \in {m \in 1 .. i : ~IsNone(results[m].measurements.kneeAngle)}})

\* C14: best_knee_angle is the minimum of 180 and the non-null knee angles
\* seen so far, and from the first frame at which it is <= 70 on every frame
\* of the phase has knee_depth 100.
C14_BestAngleSticks ==
    pc = "score" =>
        /\ current_best_knee_angle = C14_MinAngle(Len(results))
        /\ \A i, j \in DOMAIN results :
             (i <= j /\ C14_MinAngle(i) <= 700) => results[j].scores.knee_depth = 1000

\* C14 witness: the angle reaches 70, rises above 90 and is then missing,
\* with the hips above the knees throughout.
C14_Witness ==
    /\ pc = "score"
    /\ Len(results) = 3
    /\ results[1].measurements.kneeAngle = Some(700)
    /\ results[2].measurements.kneeAngle = Some(1200)
    /\ results[3].measurements.kneeAngle = None
    /\ \A i \in 1 .. 3 : ~HipBelowKnee(results[i].landmarks)
    /\ current_best_knee_angle = 700
    /\ results[3].scores.knee_depth = 1000

====
